---- MODULE Spec2Model ----
(***************************************************************************)
(* Decision/coordination layer of the PooperScooper excavator:             *)
(*   - SafetySystem (safety/watchdog.py): heartbeat watchdog, latched      *)
(*     emergency stop, stall counter, background monitor thread            *)
(*   - NavigationStateMachine / ManipulationStateMachine                   *)
(*     (control/state_machines.py)                                         *)
(*   - AudioMonitor retry escalation (hardware/audio_monitor.py)           *)
(*   - PooperScooperBehaviorTree tick (control/behavior_tree.py)           *)
(*   - PatrolPlanner coverage grid and waypoint route                      *)
(*     (control/patrol_planner.py)                                         *)
(* Time is discrete; one unit is an arbitrary fixed number of seconds.     *)
(***************************************************************************)
EXTENDS Integers, Sequences, FiniteSets, TLC

(***************************************************************************)
(* Bounds of the model and configuration values of the program.            *)
(***************************************************************************)
\* last instant of the modelled clock
MaxTime == 5
\* cap on SafetySystem.stall_count (the code's counter is unbounded)
MaxStall == 4
\* longest recorded trigger history of the manipulation machine
MaxHist == 7
\* cap on the iterations of PooperScooperBehaviorTree.run (max_iterations)
MaxTicks == 3
\* cap on AudioMonitor.retry_attempts (the code's counter is unbounded)
MaxRetry == 4
\* largest num_samples = int(duration / window_duration) of a calibration
MaxSamples == 2
\* largest config['patrol']['area']['width'] and ['height'] of a planner whose
\* route is generated and consumed, in length units
MaxRoute == 4
\* largest config['patrol']['area']['width'] of a planner whose grid is marked,
\* in length units
MaxWidth == 2
\* largest config['patrol']['area']['height'], in length units
MaxHeight == 2
\* most get_next_waypoint calls made after the route is exhausted
MaxNone == 2
\* most cells of the grids whose coverage is explored
MaxCells == 4
\* width and height of the areas the path planner searches
MaxGrid == 5
\* position units per length unit
PosScale == 200
\* config['patrol']['area']['x'] and ['y'], in length units
Origins == {0, 1}
\* config['patrol']['grid_cell_size'], in length units
CellSizes == {1, 2}
\* config['patrol']['overlap_percent']
Overlaps == {0, 50}
\* coordinates handed to mark_visited, in half length units from the origin
\* of the area
MarkOffsets == {2 * k + 1 : k \in (0 - 2) .. MaxWidth}
\* config['audio']['stall_frequency_threshold'], Hz
stall_threshold == 100
\* config['audio']['frequency_drop_percent']
frequency_drop_percent == 50
\* baseline used by check_for_stall for a motor that was never calibrated, Hz
DefaultBaseline == 400
\* config['safety']['watchdog_timeout'], in time units
watchdog_timeout == 2
\* config['safety']['max_operation_time'], in time units
max_operation_time == 3
\* config['safety']['stall_retry_attempts']
stall_retry_attempts == 3

VARIABLES
    \* ---- SafetySystem ----
    now,              \* time.time()
    last_heartbeat,   \* SafetySystem.last_heartbeat
    start_time,       \* SafetySystem.start_time
    emergency_stop,   \* SafetySystem.emergency_stop
    stall_count,      \* SafetySystem.stall_count
    stop_reason,      \* reason logged by the trigger_emergency_stop that set the flag
    running,          \* SafetySystem.running
    mon_pc,           \* position of the watchdog thread in _watchdog_monitor
    mon_time,         \* local current_time of the watchdog thread
    mon_polled,       \* the watchdog thread has run its checks since the clock last advanced
    mon_regular,      \* the watchdog thread has so far run its checks at every instant
    \* ---- state machines ----
    nav_state,        \* NavigationStateMachine.state
    arm_state,        \* ManipulationStateMachine.state
    arm_hist,         \* triggers the arm machine accepted since it last left home
    sm_prev,          \* state in which the last trigger of a machine was fired
    \* ---- AudioMonitor ----
    retry_attempts,   \* AudioMonitor.retry_attempts
    stall_detected,   \* AudioMonitor.stall_detected
    current_motor,    \* AudioMonitor.current_motor
    baseline_frequencies, \* AudioMonitor.baseline_frequencies
    strat_hist,       \* strategies handle_stall returned since the last reset_stall_flag
    calibration,      \* num_samples and len(samples) of the last calibrate_motor call
    \* ---- PooperScooperBehaviorTree ----
    loop_pc,          \* position of the control loop in PooperScooperSystem.run / run
    current_child,    \* index of root.current_child while the root is RUNNING, else 1
    patrol_active,    \* blackboard.patrol_active
    initialized,      \* PatrolCycleBehavior.initialized
    waypoints,        \* PatrolCycleBehavior.waypoints
    current_waypoint_idx, \* PatrolCycleBehavior.current_waypoint_idx
    pickup_count,     \* blackboard.pickup_count
    patrol_planner,   \* the tree was given a PatrolPlanner (else None)
    position_tracker, \* the tree was given a PositionTracker (else None)
    database,         \* the tree was given a PickupDatabase (else None)
    map_manager,      \* the tree was given a MapManager (else None)
    ticks,            \* iterations of run started so far
    tick_es,          \* emergency_stop when the last tick began
    nodes_run,        \* behaviours ticked in the last tick, in order
    motions,          \* excavator commands issued in the last tick
    last_pickup,      \* what the _pickup_with_retry call of the last tick did
    tick_end,         \* the time before which the body of the last tick cannot return
    tick_result,      \* what the body that is executing will have done when it returns
    open_sessions,    \* rows of patrol_sessions whose end_time is NULL
    logged_attempts,  \* success flags of the rows of pickup_attempts, in order
    \* ---- PatrolPlanner ----
    cfg,              \* config['patrol']
    coverage_grid,    \* PatrolPlanner.coverage_grid
    planner_waypoints, \* PatrolPlanner.waypoints
    current_waypoint_index, \* PatrolPlanner.current_waypoint_index
    returned,         \* values get_next_waypoint returned since the route was generated or reset
    saved_map,        \* the file save_coverage_map wrote
    \* ---- MapManager, PathPlanner ----
    occupancy_grid,   \* MapManager.occupancy_grid
    plan_start,       \* start argument of the last path request
    plan_goal,        \* goal argument of the last path request
    path,             \* path returned for the last path request
    \* ---- last call ----
    op,               \* name of the operation executed last
    ret               \* value returned (or error raised) by the operation executed last

safety_vars == <<now, last_heartbeat, start_time, emergency_stop, stall_count,
                 stop_reason, running, mon_pc, mon_time, mon_polled, mon_regular>>
sm_vars == <<nav_state, arm_state, arm_hist, sm_prev>>
audio_vars == <<retry_attempts, stall_detected, current_motor,
                baseline_frequencies, strat_hist, calibration>>
collab_vars == <<patrol_planner, position_tracker, database, map_manager>>
rows_vars == <<open_sessions, logged_attempts>>
tree_vars == <<loop_pc, current_child, patrol_active, initialized, waypoints,
               current_waypoint_idx, pickup_count, collab_vars, ticks, tick_es,
               nodes_run, motions, last_pickup, tick_end, tick_result,
               rows_vars>>
planner_vars == <<cfg, coverage_grid, planner_waypoints, current_waypoint_index,
                  returned, saved_map>>
map_vars == <<occupancy_grid>>
path_vars == <<plan_start, plan_goal, path>>
nav_vars == <<planner_vars, map_vars, path_vars>>
vars == <<safety_vars, sm_vars, audio_vars, tree_vars, nav_vars, op, ret>>

NoRet == "none"

\* no emergency stop has been logged
NoReason == ""

\* a Python bool as a returned value
Bool(b) == IF b THEN "True" ELSE "False"

(***************************************************************************)
(* SafetySystem                                                            *)
(***************************************************************************)
\* time.time() - self.last_heartbeat > self.watchdog_timeout
HeartbeatStale(t, hb) == t - hb > watchdog_timeout

\* current_time - self.start_time > self.max_operation_time
OperationExpired(t, st) == t - st > max_operation_time

\* SafetySystem.__init__
SafetyInit ==
    /\ now = 0
    /\ last_heartbeat = 0
    /\ start_time = 0
    /\ emergency_stop = FALSE
    /\ stall_count = 0
    /\ stop_reason = NoReason
    /\ running = FALSE
    /\ mon_pc = "off"
    /\ mon_time = 0
    /\ mon_polled = FALSE
    /\ mon_regular = TRUE

\* is_safe without the heartbeat freshness check
IsSafeFlagOnly(es, t, hb) == ~es

\* SafetySystem.is_safe, as a function of the state it reads
IsSafe(es, t, hb) ==
    IF es THEN FALSE
    ELSE IF HeartbeatStale(t, hb) THEN FALSE
    ELSE TRUE

\* SafetySystem.trigger_emergency_stop: the reason logged for the latched flag
ReasonAfter(es, old, reason) == IF ~es THEN reason ELSE old

\* SafetySystem.trigger_emergency_stop: the new value of the flag
TriggerValue(es) == IF ~es THEN TRUE ELSE es

\* the clock advances
Advance ==
    /\ now < MaxTime
    /\ now' = now + 1
    /\ mon_regular' = (mon_regular /\ mon_polled /\ mon_pc = "loop")
    /\ mon_polled' = FALSE
    /\ op' = <<"clock", "advance">> /\ ret' = NoRet
    /\ UNCHANGED <<last_heartbeat, start_time, emergency_stop, stall_count,
                   running, mon_pc, mon_time, stop_reason>>

\* heartbeat that also clears a latched stop
HeartbeatClearsStop ==
    /\ last_heartbeat' = now
    /\ emergency_stop' = FALSE
    /\ op' = <<"safety", "heartbeat">> /\ ret' = NoRet
    /\ UNCHANGED <<now, start_time, stall_count,
                   running, mon_pc, mon_time,
                   mon_polled, mon_regular, stop_reason>>

\* SafetySystem.heartbeat
Heartbeat ==
    /\ last_heartbeat' = now
    /\ op' = <<"safety", "heartbeat">> /\ ret' = NoRet
    /\ UNCHANGED <<now, start_time, emergency_stop, stall_count,
                   running, mon_pc, mon_time,
                   mon_polled, mon_regular, stop_reason>>

\* SafetySystem.is_safe
CallIsSafe ==
    /\ op' = <<"safety", "is_safe">>
    /\ ret' = Bool(IsSafe(emergency_stop, now, last_heartbeat))
    /\ UNCHANGED safety_vars

\* SafetySystem.trigger_emergency_stop
TriggerEmergencyStop ==
    /\ emergency_stop' = TriggerValue(emergency_stop)
    /\ op' = <<"safety", "trigger_emergency_stop">> /\ ret' = NoRet
    /\ UNCHANGED <<now, last_heartbeat, start_time, stall_count,
                   running, mon_pc, mon_time,
                   mon_polled, mon_regular>>
    /\ \E reason \in {"Test emergency stop", "Exception"} :
         stop_reason' = ReasonAfter(emergency_stop, stop_reason, reason)

\* SafetySystem.reset_emergency_stop
ResetEmergencyStop ==
    /\ emergency_stop' = FALSE
    /\ last_heartbeat' = now
    /\ stall_count' = 0
    /\ op' = <<"safety", "reset_emergency_stop">> /\ ret' = NoRet
    /\ UNCHANGED <<now, start_time, running, mon_pc, mon_time,
                   mon_polled, mon_regular>>
    /\ UNCHANGED stop_reason

\* SafetySystem.report_stall: the flag after the call
ReportStallLatch(es, count) ==
    IF count >= stall_retry_attempts THEN TriggerValue(es) ELSE es

\* report_stall comparing with > instead of >=
ReportStallReturnLate(count) ==
    IF count > stall_retry_attempts THEN FALSE ELSE TRUE

\* SafetySystem.report_stall: the value returned
ReportStallReturn(count) ==
    IF count >= stall_retry_attempts THEN FALSE ELSE TRUE

\* SafetySystem.report_stall
ReportStall ==
    /\ stall_count < MaxStall
    /\ stall_count' = stall_count + 1
    /\ emergency_stop' = ReportStallLatch(emergency_stop, stall_count')
    /\ op' = <<"safety", "report_stall">>
    /\ ret' = Bool(ReportStallReturn(stall_count'))
    /\ UNCHANGED <<now, last_heartbeat, start_time, running, mon_pc, mon_time,
                   mon_polled, mon_regular>>
    /\ stop_reason' = IF stall_count' >= stall_retry_attempts
                      THEN ReasonAfter(emergency_stop, stop_reason, "Repeated stalls")
                      ELSE stop_reason

\* SafetySystem.reset_stall_counter
ResetStallCounter ==
    /\ stall_count' = IF stall_count > 0 THEN 0 ELSE stall_count
    /\ op' = <<"safety", "reset_stall_counter">> /\ ret' = NoRet
    /\ UNCHANGED <<now, last_heartbeat, start_time, emergency_stop,
                   running, mon_pc, mon_time,
                   mon_polled, mon_regular, stop_reason>>

\* SafetySystem.start_watchdog
StartWatchdog ==
    /\ running \/ mon_pc = "off"
    /\ IF running
         THEN UNCHANGED <<running, mon_pc>>
         ELSE running' = TRUE /\ mon_pc' = "loop"
    /\ op' = <<"safety", "start_watchdog">> /\ ret' = NoRet
    /\ UNCHANGED <<now, last_heartbeat, start_time, emergency_stop,
                   stall_count, mon_time,
                   mon_polled, mon_regular, stop_reason>>

\* SafetySystem.stop_watchdog
StopWatchdog ==
    /\ running' = FALSE
    /\ op' = <<"safety", "stop_watchdog">> /\ ret' = NoRet
    /\ UNCHANGED <<now, last_heartbeat, start_time, emergency_stop,
                   stall_count, mon_pc, mon_time,
                   mon_polled, mon_regular, stop_reason>>

\* where the watchdog thread goes after the heartbeat check and its trigger:
\* the operation-time check reads only the thread's own current_time
AfterHeartbeatCheck(t, st) ==
    IF OperationExpired(t, st) THEN "trig_op" ELSE "loop"

\* _watchdog_monitor: loop test, current_time = time.time(), heartbeat check
MonitorCheck ==
    /\ mon_pc = "loop"
    /\ IF running
         THEN /\ mon_time' = now
              /\ mon_pc' = IF HeartbeatStale(now, last_heartbeat)
                             THEN "trig_hb"
                             ELSE AfterHeartbeatCheck(now, start_time)
              /\ mon_polled' = TRUE
         ELSE /\ mon_pc' = "off"
              /\ UNCHANGED <<mon_time, mon_polled>>
    /\ op' = <<"monitor", "monitor_check">> /\ ret' = NoRet
    /\ UNCHANGED <<now, last_heartbeat, start_time, emergency_stop,
                   stall_count, running, mon_regular, stop_reason>>

\* _watchdog_monitor: trigger_emergency_stop("Watchdog timeout")
MonitorTriggerHeartbeat ==
    /\ mon_pc = "trig_hb"
    /\ emergency_stop' = TriggerValue(emergency_stop)
    /\ mon_pc' = AfterHeartbeatCheck(mon_time, start_time)
    /\ op' = <<"monitor", "monitor_trigger_hb">> /\ ret' = NoRet
    /\ UNCHANGED <<now, last_heartbeat, start_time, stall_count, running, mon_time,
                   mon_polled, mon_regular>>
    /\ stop_reason' = ReasonAfter(emergency_stop, stop_reason, "Watchdog timeout")

\* _watchdog_monitor: trigger_emergency_stop("Operation timeout"), then sleep
MonitorTriggerOperation ==
    /\ mon_pc = "trig_op"
    /\ emergency_stop' = TriggerValue(emergency_stop)
    /\ mon_pc' = "loop"
    /\ op' = <<"monitor", "monitor_trigger_op">> /\ ret' = NoRet
    /\ UNCHANGED <<now, last_heartbeat, start_time, stall_count, running, mon_time,
                   mon_polled, mon_regular>>
    /\ stop_reason' = ReasonAfter(emergency_stop, stop_reason, "Operation timeout")

MonitorStep ==
    \/ MonitorCheck
    \/ MonitorTriggerHeartbeat
    \/ MonitorTriggerOperation

(***************************************************************************)
(* State machines (transitions.Machine, auto_transitions=False)            *)
(***************************************************************************)
\* NavigationState
NavStates == {"idle", "patrolling", "searching", "approaching_target",
              "positioning", "returning_to_base", "arrived"}

\* ManipulationState
ArmStates == {"home", "lowering", "scooping", "lifting", "carrying",
              "dumping", "verifying"}

Tr(t, s, d) == [trigger |-> t, source |-> s, dest |-> d]

\* the navigation table with reset defined from idle only
NavTransitionsNarrowReset == <<
    Tr("start_patrol", "idle", "patrolling"),
    Tr("start_search", "idle", "searching"),
    Tr("target_found", "patrolling", "approaching_target"),
    Tr("patrol_complete", "patrolling", "returning_to_base"),
    Tr("continue_patrol", "patrolling", "patrolling"),
    Tr("target_found", "searching", "approaching_target"),
    Tr("return_home", "searching", "returning_to_base"),
    Tr("arrived_at_target", "approaching_target", "positioning"),
    Tr("lost_target", "approaching_target", "patrolling"),
    Tr("positioned", "positioning", "arrived"),
    Tr("repositioning_needed", "positioning", "approaching_target"),
    Tr("pickup_complete", "arrived", "patrolling"),
    Tr("pickup_failed", "arrived", "patrolling"),
    Tr("arrived_at_base", "returning_to_base", "idle"),
    Tr("reset", "idle", "idle") >>

\* NavigationStateMachine.transitions, in the order of the source
NavTransitions == <<
    Tr("start_patrol", "idle", "patrolling"),
    Tr("start_search", "idle", "searching"),
    Tr("target_found", "patrolling", "approaching_target"),
    Tr("patrol_complete", "patrolling", "returning_to_base"),
    Tr("continue_patrol", "patrolling", "patrolling"),
    Tr("target_found", "searching", "approaching_target"),
    Tr("return_home", "searching", "returning_to_base"),
    Tr("arrived_at_target", "approaching_target", "positioning"),
    Tr("lost_target", "approaching_target", "patrolling"),
    Tr("positioned", "positioning", "arrived"),
    Tr("repositioning_needed", "positioning", "approaching_target"),
    Tr("pickup_complete", "arrived", "patrolling"),
    Tr("pickup_failed", "arrived", "patrolling"),
    Tr("arrived_at_base", "returning_to_base", "idle"),
    Tr("reset", "*", "idle") >>

\* the manipulation table with lifted leading straight to carrying
ArmTransitionsSkipVerify == <<
    Tr("start_pickup", "home", "lowering"),
    Tr("lowered", "lowering", "scooping"),
    Tr("scooped", "scooping", "lifting"),
    Tr("lifted", "lifting", "carrying"),
    Tr("pickup_verified", "verifying", "carrying"),
    Tr("pickup_failed_verify", "verifying", "lowering"),
    Tr("arrived_at_dump", "carrying", "dumping"),
    Tr("dumped", "dumping", "home"),
    Tr("reset", "*", "home"),
    Tr("abort", "*", "home") >>

\* the manipulation table with abort defined only during the pickup sequence
ArmTransitionsNarrowAbort == <<
    Tr("start_pickup", "home", "lowering"),
    Tr("lowered", "lowering", "scooping"),
    Tr("scooped", "scooping", "lifting"),
    Tr("lifted", "lifting", "verifying"),
    Tr("pickup_verified", "verifying", "carrying"),
    Tr("pickup_failed_verify", "verifying", "lowering"),
    Tr("arrived_at_dump", "carrying", "dumping"),
    Tr("dumped", "dumping", "home"),
    Tr("reset", "*", "home"),
    Tr("abort", "lowering", "home"),
    Tr("abort", "scooping", "home"),
    Tr("abort", "lifting", "home"),
    Tr("abort", "verifying", "home") >>

\* ManipulationStateMachine.transitions, in the order of the source
ArmTransitions == <<
    Tr("start_pickup", "home", "lowering"),
    Tr("lowered", "lowering", "scooping"),
    Tr("scooped", "scooping", "lifting"),
    Tr("lifted", "lifting", "verifying"),
    Tr("pickup_verified", "verifying", "carrying"),
    Tr("pickup_failed_verify", "verifying", "lowering"),
    Tr("arrived_at_dump", "carrying", "dumping"),
    Tr("dumped", "dumping", "home"),
    Tr("reset", "*", "home"),
    Tr("abort", "*", "home") >>

Triggers(table) == {table[i].trigger : i \in DOMAIN table}
NavTriggers == Triggers(NavTransitions)
ArmTriggers == Triggers(ArmTransitions)

\* the error transitions.Machine raises for a trigger invalid in the current state
MachineError == "MachineError"
Ok == "ok"

\* the transitions of the table that a trigger fired in state s can take:
\* source '*' stands for every state
Enabled(table, s, t) ==
    {i \in DOMAIN table :
        /\ table[i].trigger = t
        /\ (table[i].source = "*" \/ table[i].source = s)}

\* the first enabled transition, in table order
FirstEnabled(table, s, t) ==
    CHOOSE i \in Enabled(table, s, t) : \A j \in Enabled(table, s, t) : i <= j

\* a Machine that ignores invalid triggers instead of raising
FireIgnoreInvalid(table, s, t) ==
    IF Enabled(table, s, t) = {}
      THEN [state |-> s, err |-> FALSE]
      ELSE [state |-> table[FirstEnabled(table, s, t)].dest, err |-> FALSE]

\* Machine: firing trigger t in state s. No enabled transition raises
\* MachineError and keeps the state; otherwise the first one is taken.
Fire(table, s, t) ==
    IF Enabled(table, s, t) = {}
      THEN [state |-> s, err |-> TRUE]
      ELSE [state |-> table[FirstEnabled(table, s, t)].dest, err |-> FALSE]

NavFire(s, t) == Fire(NavTransitions, s, t)
ArmFire(s, t) == Fire(ArmTransitions, s, t)

Overflow == <<"...">>

\* the accepted triggers since the arm machine last left home
HistAfter(hist, s, t) ==
    IF s = "home" THEN <<t>>
    ELSE IF hist = Overflow \/ Len(hist) >= MaxHist THEN Overflow
    ELSE Append(hist, t)

\* NavigationStateMachine.__init__ / ManipulationStateMachine.__init__
SMInit ==
    /\ nav_state = "idle"
    /\ arm_state = "home"
    /\ arm_hist = <<>>
    /\ sm_prev = "none"

\* a trigger method of the navigation machine is called
NavTrigger ==
    \E t \in NavTriggers :
        LET r == NavFire(nav_state, t) IN
        /\ nav_state' = r.state
        /\ sm_prev' = nav_state
        /\ op' = <<"nav", t>>
        /\ ret' = IF r.err THEN MachineError ELSE Ok
        /\ UNCHANGED <<arm_state, arm_hist>>

\* a trigger method of the manipulation machine is called
ArmTrigger ==
    \E t \in ArmTriggers :
        LET r == ArmFire(arm_state, t) IN
        /\ arm_state' = r.state
        /\ arm_hist' = IF r.err THEN arm_hist ELSE HistAfter(arm_hist, arm_state, t)
        /\ sm_prev' = arm_state
        /\ op' = <<"arm", t>>
        /\ ret' = IF r.err THEN MachineError ELSE Ok
        /\ UNCHANGED nav_state

(***************************************************************************)
(* AudioMonitor: stall flag and retry escalation                           *)
(***************************************************************************)
\* StallRetryStrategy
BACK_UP == "back_up"
ADJUST_ANGLE == "adjust_angle"
REDUCE_DEPTH == "reduce_depth"
INCREASE_FORCE == "increase_force"
SKIP == "skip"

Motors == {"arm_motor", "boom_motor"}
NoMotor == "None"

\* dominant frequencies _get_dominant_frequency can report, Hz; None when the
\* capture fails
Freqs == {60, 150, 400}
None == 0 - 1
\* np.median of no samples
NaN == 0 - 2
\* a motor that has no entry in baseline_frequencies
NotCalibrated == 0 - 3

\* AudioMonitor.__init__
AudioInit ==
    /\ retry_attempts = 0
    /\ stall_detected = FALSE
    /\ current_motor = NoMotor
    /\ baseline_frequencies = [m \in Motors |-> NotCalibrated]
    /\ strat_hist = <<>>
    /\ calibration = <<0, 0>>

\* the samples that calibrate_motor keeps: the captures that are not None
Kept(samples) == SelectSeq(samples, LAMBDA f : f # None)

Count(s, v) == Cardinality({i \in DOMAIN s : s[i] = v})

\* sorted copy of a sequence of frequencies
Sorted(s) ==
    CHOOSE t \in [DOMAIN s -> Freqs] :
        /\ \A i, j \in DOMAIN s : i < j => t[i] <= t[j]
        /\ \A v \in Freqs : Count(t, v) = Count(s, v)

\* np.median: the middle sample, or the mean of the two middle samples
Median(s) ==
    LET n == Len(s)
        t == Sorted(s)
    IN  IF n = 0 THEN NaN
        ELSE IF n % 2 = 1 THEN t[(n + 1) \div 2]
        ELSE (t[n \div 2] + t[n \div 2 + 1]) \div 2

\* AudioMonitor.calibrate_motor: whether the calibration is rejected
TooFewSamples(kept, num_samples) == kept < num_samples \div 2

\* AudioMonitor.calibrate_motor
CalibrateMotor ==
    \E m \in Motors, n \in 0..MaxSamples :
      \E samples \in [1..n -> Freqs \cup {None}] :
        /\ IF TooFewSamples(Len(Kept(samples)), n)
             THEN /\ ret' = Bool(FALSE)
                  /\ UNCHANGED baseline_frequencies
             ELSE /\ ret' = Bool(TRUE)
                  /\ baseline_frequencies' =
                        [baseline_frequencies EXCEPT ![m] = Median(Kept(samples))]
        /\ calibration' = <<n, Len(Kept(samples))>>
        /\ op' = <<"audio", "calibrate_motor">>
        /\ UNCHANGED <<retry_attempts, stall_detected, current_motor, strat_hist>>

\* AudioMonitor.check_for_stall: the baseline compared against
BaselineOf(bf, m) == IF bf[m] = NotCalibrated THEN DefaultBaseline ELSE bf[m]

\* AudioMonitor.check_for_stall: stall_condition_1 or stall_condition_2
\* (a comparison with nan is false)
IsStalled(freq, baseline) ==
    \/ freq < stall_threshold
    \/ /\ baseline # NaN
       /\ freq * 100 < baseline * (100 - frequency_drop_percent)

\* AudioMonitor.check_for_stall: the value returned for a captured frequency
CheckResult(freq, bf, m) ==
    IF freq = None THEN FALSE ELSE IsStalled(freq, BaselineOf(bf, m))

\* AudioMonitor.check_for_stall (measurement_history, a log that only
\* get_frequency_history reads, is left out)
CheckForStall ==
    \E m \in Motors, freq \in Freqs \cup {None} :
        /\ current_motor' = m
        /\ stall_detected' = IF freq = None THEN stall_detected
                             ELSE IsStalled(freq, BaselineOf(baseline_frequencies, m))
        /\ op' = <<"audio", "check_for_stall">>
        /\ ret' = Bool(CheckResult(freq, baseline_frequencies, m))
        /\ UNCHANGED <<retry_attempts, baseline_frequencies, strat_hist, calibration>>

\* AudioMonitor.get_retry_strategy
GetRetryStrategy(attempts) ==
    IF attempts = 0 THEN BACK_UP
    ELSE IF attempts = 1 THEN ADJUST_ANGLE
    ELSE IF attempts = 2 THEN REDUCE_DEPTH
    ELSE SKIP

\* AudioMonitor.handle_stall: the counter and the strategy it returns
HandleStallResult(attempts) ==
    [attempts |-> attempts + 1, strategy |-> GetRetryStrategy(attempts + 1)]

\* AudioMonitor.handle_stall
HandleStall ==
    /\ retry_attempts < MaxRetry
    /\ LET r == HandleStallResult(retry_attempts) IN
        /\ retry_attempts' = r.attempts
        /\ strat_hist' = Append(strat_hist, r.strategy)
        /\ op' = <<"audio", "handle_stall">>
        /\ ret' = r.strategy
    /\ UNCHANGED <<stall_detected, current_motor, baseline_frequencies, calibration>>

\* AudioMonitor.reset_stall_flag
ResetStallFlag ==
    /\ stall_detected' = FALSE
    /\ current_motor' = NoMotor
    /\ retry_attempts' = 0
    /\ strat_hist' = <<>>
    /\ op' = <<"audio", "reset_stall_flag">> /\ ret' = NoRet
    /\ UNCHANGED <<baseline_frequencies, calibration>>

(***************************************************************************)
(* PooperScooperBehaviorTree                                               *)
(* A tick is one atomic step of the control loop. The collaborators the    *)
(* constructor documents as optional are either the classes of this        *)
(* repository or None. Timing values of the excavator are not part of the  *)
(* state; of the database, the open sessions and the logged attempts are.  *)
(***************************************************************************)
SUCCESS == "SUCCESS"
FAILURE == "FAILURE"
RUNNING == "RUNNING"

\* children of the root Sequence, in the order of add_children
Children ==
    <<"Safety Check", "Wait for Patrol Command", "Patrol Cycle", "Return to Home">>

\* excavator commands that move the machine
MotionCommands ==
    {"move_forward", "move_backward", "turn_left", "turn_right",
     "pickup_sequence", "dump_sequence"}

\* max_attempts of _navigate_and_dump
max_attempts == 20

\* excavator.pickup_sequence() raises
Fault == 0 - 4

\* excavator.execute_retry_strategy() raises after a stall was reported
RetryFault == 0 - 5

\* no _pickup_with_retry call was made: attempts started (n), calls of
\* excavator.pickup_sequence (seqs), strategies execute_retry_strategy
\* completed (strats), the attempt that ran its four arm triggers with no
\* stall and no exception (clean), whether pickup_verified was fired, the
\* attempt that raised (fault), the arm state in which each attempt started
\* (starts) and in which the call returned (arm), and the value returned;
\* of the _navigate_and_dump call that follows it: the passes of the search
\* loop (passes), whether the loop declared arrival (arrived) and the calls
\* of excavator.dump_sequence (dumps)
NoPickup ==
    [n |-> 0, seqs |-> 0, strats |-> <<>>, clean |-> 0, verified |-> FALSE,
     fault |-> 0, starts |-> <<>>, arm |-> "none", result |-> "none",
     passes |-> 0, arrived |-> FALSE, dumps |-> 0]

\* no body of a tick is executing
NoResult == <<>>

\* what one pickup attempt meets: a fault, or the frequency check_for_stall reads
AttemptInputs == {Fault, RetryFault, None} \cup Freqs

\* PooperScooperBehaviorTree.__init__, PatrolCycleBehavior.__init__; the
\* database file is new
TreeFieldsInit ==
    /\ loop_pc = "idle"
    /\ current_child = 1
    /\ patrol_active = FALSE
    /\ initialized = FALSE
    /\ waypoints = <<>>
    /\ current_waypoint_idx = 0
    /\ pickup_count = 0
    /\ ticks = 0
    /\ tick_es = FALSE
    /\ nodes_run = <<>>
    /\ motions = {}
    /\ last_pickup = NoPickup
    /\ tick_end = 0
    /\ tick_result = NoResult
    /\ open_sessions = 0
    /\ logged_attempts = <<>>

\* the tree as PooperScooperSystem.__init__ builds it
TreeInit ==
    /\ TreeFieldsInit
    /\ patrol_planner = TRUE
    /\ position_tracker = TRUE
    /\ database = TRUE
    /\ map_manager = TRUE

\* the tree built with any choice of its optional collaborators
TreeInitOptional ==
    /\ TreeFieldsInit
    /\ patrol_planner \in BOOLEAN
    /\ position_tracker \in BOOLEAN
    /\ database \in BOOLEAN
    /\ map_manager \in BOOLEAN

\* the tree built with the defaults of its optional collaborators (None)
TreeInitDefaults ==
    /\ TreeFieldsInit
    /\ patrol_planner = FALSE
    /\ position_tracker = FALSE
    /\ database = FALSE
    /\ map_manager = FALSE

\* the state one tick works on, read at the start of the tick
TickStart ==
    [nav |-> nav_state, arm |-> arm_state, hist |-> arm_hist, prev |-> sm_prev,
     att |-> retry_attempts, sd |-> stall_detected, cm |-> current_motor,
     strats |-> strat_hist, active |-> patrol_active, init |-> initialized,
     idx |-> current_waypoint_idx, count |-> pickup_count,
     motions |-> {}, nodes |-> <<>>, raised |-> FALSE, status |-> SUCCESS,
     resume |-> current_child, stage |-> "next", pk |-> NoPickup,
     turns |-> 0]

\* an exception leaves the tick
Raise(T) == [T EXCEPT !.raised = TRUE]

\* a behaviour returns its status
Done(T, st) == [T EXCEPT !.status = st]

\* an excavator command is issued
Issue(T, cmd) == [T EXCEPT !.motions = @ \cup {cmd}]

\* a trigger method of nav_sm is called inside a tick
NavCall(T, t) ==
    LET r == NavFire(T.nav, t)
        T1 == [T EXCEPT !.nav = r.state, !.prev = T.nav]
    IN  IF r.err THEN Raise(T1) ELSE T1

\* a trigger method of arm_sm is called inside a tick
ArmCall(T, t) ==
    LET r == ArmFire(T.arm, t)
        T1 == [T EXCEPT !.arm = r.state, !.prev = T.arm,
                        !.hist = IF r.err THEN @ ELSE HistAfter(@, T.arm, t)]
    IN  IF r.err THEN Raise(T1) ELSE T1

\* a trigger method of arm_sm is called unless an earlier call of the same
\* try block has raised
ArmCallNext(T, t) == IF T.raised THEN T ELSE ArmCall(T, t)

\* arm_sm.start_pickup(); lowered(); scooped(); lifted()
ArmCalls(T) ==
    ArmCallNext(ArmCallNext(ArmCallNext(ArmCall(T, "start_pickup"),
                                        "lowered"), "scooped"), "lifted")

\* SafetyCheckBehavior.update
SafetyCheckUpdate(T, es, t, hb) ==
    IF es THEN Done(T, FAILURE)
    ELSE IF ~IsSafe(es, t, hb) THEN Done(T, FAILURE)
    ELSE Done(T, SUCCESS)

\* a command gate that fails while no patrol is commanded
WaitForPatrolCommandFails(T) ==
    IF T.active THEN Done(T, SUCCESS) ELSE Done(T, FAILURE)

\* WaitForPatrolCommandBehavior.update
WaitForPatrolCommandUpdate(T) ==
    IF T.active THEN Done(T, SUCCESS) ELSE Done(T, RUNNING)

\* PatrolCycleBehavior.initialise: PatrolPlanner has no get_patrol_waypoints,
\* so the call raises AttributeError before any field is assigned, before
\* database.start_patrol_session() and before nav_sm.start_patrol()
PatrolInitialise(T) ==
    IF ~T.init /\ patrol_planner THEN Raise(T) ELSE T

\* PatrolCycleBehavior.update, the waypoint step: current_pos is the tuple
\* get_current_position returns, which has no attribute x
WaypointStep(T) ==
    LET T1 == Issue(T, "move_forward")
    IN  IF map_manager /\ position_tracker
          THEN Raise(T1)
          ELSE [T1 EXCEPT !.idx = @ + 1]

\* ExcavatorController.execute_retry_strategy
ExecuteRetryStrategy(T, strategy) ==
    IF strategy = BACK_UP THEN Issue(T, "move_backward")
    ELSE IF strategy = ADJUST_ANGLE
      THEN Issue(Issue(T, "turn_left"), "move_forward")
    ELSE T

\* an except branch that returns without arm_sm.abort()
ReturnAfterFault(T) == [T EXCEPT !.raised = FALSE]

\* the except branch of _pickup_with_retry: arm_sm.abort()
AbortAfterFault(T) == ArmCall([T EXCEPT !.raised = FALSE], "abort")

\* a stall branch that goes on to the next attempt without arm_sm.abort()
ContinueAfterStall(T) == T

\* the stall branch of _pickup_with_retry: arm_sm.abort()
AbortAfterStall(T) == ArmCall(T, "abort")

\* an attempt that runs the physical sequence twice
PickupSequenceCallTwice(T) ==
    Issue([T EXCEPT !.pk.seqs = @ + 2], "pickup_sequence")

\* _pickup_with_retry: self.excavator.pickup_sequence()
PickupSequenceCall(T) ==
    Issue([T EXCEPT !.pk.seqs = @ + 1], "pickup_sequence")

\* _pickup_with_retry: one iteration of the attempt loop, meeting x.
\* outcome "continue" goes on to the next attempt, "true"/"false" return.
PickupAttempt(T, x) ==
    LET T0 == PickupSequenceCall([T EXCEPT !.pk.n = @ + 1,
                                           !.pk.starts = Append(@, T.arm)])
        T1 == ArmCalls(T0)
        T2 == [T1 EXCEPT !.cm = "arm_motor",
                         !.sd = IF x = None THEN @
                                ELSE IsStalled(x, BaselineOf(baseline_frequencies,
                                                             "arm_motor"))]
        h  == HandleStallResult(T2.att)
        H  == [T2 EXCEPT !.att = h.attempts, !.strats = Append(@, h.strategy)]
        T3 == ExecuteRetryStrategy([H EXCEPT !.pk.strats = Append(@, h.strategy)],
                                   h.strategy)
        T4 == AbortAfterStall([T3 EXCEPT !.sd = FALSE, !.cm = NoMotor,
                                         !.att = 0, !.strats = <<>>])
        T5 == ArmCall([T2 EXCEPT !.pk.clean = T2.pk.n], "pickup_verified")
    IN  IF x = Fault
          THEN [t |-> AbortAfterFault([T0 EXCEPT !.pk.fault = T0.pk.n]),
                outcome |-> "false"]
        ELSE IF T1.raised
          THEN [t |-> AbortAfterFault([T1 EXCEPT !.pk.fault = T1.pk.n]),
                outcome |-> "false"]
        ELSE IF x = RetryFault
          THEN [t |-> AbortAfterFault([H EXCEPT !.pk.fault = H.pk.n]),
                outcome |-> "false"]
        ELSE IF CheckResult(x, baseline_frequencies, "arm_motor")
          THEN [t |-> T4,
                outcome |-> IF h.strategy = SKIP THEN "false" ELSE "continue"]
        ELSE IF T5.raised
          THEN [t |-> AbortAfterFault([T5 EXCEPT !.pk.fault = T5.pk.n]),
                outcome |-> "false"]
        ELSE [t |-> [T5 EXCEPT !.pk.verified = TRUE], outcome |-> "true"]

\* _pickup_with_retry: the next iteration of the attempt loop, if the one
\* before it went on
NextAttempt(a, x) ==
    IF a.outcome = "continue" THEN PickupAttempt(a.t, x) ELSE a

\* what the next iteration of the attempt loop meets; a loop that has
\* returned reads nothing
InputsAfter(a) == IF a.outcome = "continue" THEN AttemptInputs ELSE {None}

\* the pass of the search loop on which the flag is seen centred within
\* 0.7 (0: on none)
ArrivalPasses == {0, 1, 2, max_attempts, max_attempts + 1}

\* the turn commands among cmds
Turns(cmds) == cmds \cap {"turn_left", "turn_right"}

\* the passes of the search loop that do not see the flag centred and close
SearchPasses(arrive) ==
    IF arrive \in 1 .. max_attempts THEN arrive - 1 ELSE max_attempts

\* what the search loop of _navigate_and_dump meets: the pass that sees the
\* flag centred and close (arrive) and the commands the passes before it
\* issue (cmds); turns of these passes issue turn_left(0.3) or
\* turn_right(0.3), the fewest or the most the commands allow. The loop runs
\* only after a pickup that returned True.
TurnPasses(cmds, arrive) ==
    IF Turns(cmds) = {} THEN {0}
    ELSE {Cardinality(Turns(cmds)),
          SearchPasses(arrive) - Cardinality(cmds \cap {"move_forward"})}

SteeringAfter(a) ==
    IF a.outcome = "true"
      THEN UNION {{[cmds |-> s.cmds, arrive |-> s.arrive, turns |-> t] :
                      t \in TurnPasses(s.cmds, s.arrive)} :
                  s \in {s \in [cmds : SUBSET {"turn_left", "turn_right",
                                               "move_forward"},
                                arrive : ArrivalPasses] :
                           s.arrive \in 1 .. 3 => Cardinality(s.cmds) < s.arrive}}
      ELSE {[cmds |-> {}, arrive |-> 0, turns |-> 0]}

\* the for loop of _navigate_and_dump from pass attempt (counted from 0) on
RECURSIVE SearchLoop(_, _, _)
SearchLoop(T, attempt, steer) ==
    IF attempt >= max_attempts THEN [T EXCEPT !.turns = steer.turns]
    ELSE IF attempt + 1 = steer.arrive
      THEN Issue([T EXCEPT !.pk.passes = attempt + 1, !.pk.arrived = TRUE,
                           !.turns = steer.turns],
                 "move_forward")
    ELSE SearchLoop([T EXCEPT !.pk.passes = attempt + 1,
                              !.motions = @ \cup steer.cmds],
                    attempt + 1, steer)

\* a _navigate_and_dump that dumps only when the loop declared arrival
NavigateAndDumpOnArrival(T, steer) ==
    LET T1 == ArmCall(T, "arrived_at_dump")
        T2 == SearchLoop(T1, 0, steer)
        T3 == Issue([T2 EXCEPT !.pk.dumps = @ + 1], "dump_sequence")
    IN  IF T1.raised THEN T1
        ELSE IF T2.pk.arrived THEN ArmCall(T3, "dumped")
        ELSE T2

\* _navigate_and_dump
NavigateAndDump(T, steer) ==
    LET T1 == ArmCall(T, "arrived_at_dump")
        T2 == SearchLoop(T1, 0, steer)
        T3 == Issue([T2 EXCEPT !.pk.dumps = @ + 1], "dump_sequence")
    IN  IF T1.raised THEN T1 ELSE ArmCall(T3, "dumped")

\* a patrol cycle that does not read patrol_active
PatrolUpdateHeadIgnoresStop(T, frame, detection) ==
    IF patrol_planner THEN Raise(T)
    ELSE LET T1 == IF T.idx < Len(waypoints) THEN WaypointStep(T) ELSE T
             T2 == NavCall(T1, "target_found")
         IN  IF T1.raised THEN T1
             ELSE IF ~frame \/ ~detection THEN Done(T1, RUNNING)
             ELSE IF T2.raised THEN T2
             ELSE [T2 EXCEPT !.stage = "pickup"]

\* PatrolCycleBehavior.update up to nav_sm.target_found(): stage "pickup"
\* means a detection is to be handled. PatrolPlanner has no is_complete, so
\* with a planner the coverage check raises AttributeError.
PatrolUpdateHead(T, frame, detection) ==
    IF ~T.active THEN Done(T, SUCCESS)
    ELSE IF patrol_planner THEN Raise(T)
    ELSE LET T1 == IF T.idx < Len(waypoints) THEN WaypointStep(T) ELSE T
             T2 == NavCall(T1, "target_found")
         IN  IF T1.raised THEN T1
             ELSE IF ~frame \/ ~detection THEN Done(T1, RUNNING)
             ELSE IF T2.raised THEN T2
             ELSE [T2 EXCEPT !.stage = "pickup"]

\* PatrolCycleBehavior.update after _pickup_with_retry returned a (the loop
\* running out returns False): logging and marking read current_pos.x of a
\* tuple and raise AttributeError
PatrolUpdateTail(a, steer) ==
    LET T1 == [a.t EXCEPT !.stage = "done", !.pk.arm = a.t.arm,
                          !.pk.result = IF a.outcome = "true" THEN "true"
                                        ELSE "false"]
        T2 == IF a.outcome = "true"
                THEN NavigateAndDump([T1 EXCEPT !.count = @ + 1], steer)
                ELSE T1
        T3 == NavCall(T2, "continue_patrol")
    IN  IF database /\ position_tracker THEN Raise(T1)
        ELSE IF map_manager /\ position_tracker THEN Raise(T1)
        ELSE IF T2.raised THEN T2
        ELSE IF T3.raised THEN T3
        ELSE Done(T3, RUNNING)

\* ReturnHomeBehavior.update; near is distance_to_home() < 0.5
ReturnHomeUpdate(T, near) ==
    LET T1 == NavCall(T, "patrol_complete")
        T2 == NavCall(T1, "arrived_at_base")
    IN  IF T1.raised THEN T1
        ELSE IF position_tracker /\ near
          THEN (IF T2.raised THEN T2 ELSE Done(T2, SUCCESS))
        ELSE Done(Issue(T1, "move_backward"), SUCCESS)

\* Behaviour.tick of child i: initialise() when the child was not RUNNING,
\* then update()
TickChild(i, T, wasRunning, es, frame, detection, near) ==
    IF i = 1 THEN SafetyCheckUpdate(T, es, now, now)
    ELSE IF i = 2 THEN WaitForPatrolCommandUpdate(T)
    ELSE IF i = 3
      THEN LET T0 == IF wasRunning THEN T ELSE PatrolInitialise(T)
           IN  IF T0.raised THEN T0 ELSE PatrolUpdateHead(T0, frame, detection)
    ELSE ReturnHomeUpdate(T, near)

\* Sequence(memory=True).tick, child i: ticked when the tick starts at or
\* before it (index start) and the children before it succeeded. A child that does not succeed ends the tick, and a RUNNING
\* child is where the next tick resumes.
SequenceStep(i, T, start, es, frame, detection, near) ==
    IF i < start \/ T.raised \/ T.stage # "next" THEN T
    ELSE LET R == TickChild(i, [T EXCEPT !.nodes = Append(@, Children[i])],
                            i = start /\ start > 1, es, frame, detection, near)
         IN  IF R.raised THEN R
             ELSE IF R.stage = "pickup" THEN [R EXCEPT !.resume = i]
             ELSE IF R.status = RUNNING
               THEN [R EXCEPT !.resume = i, !.stage = "done"]
             ELSE IF R.status = FAILURE \/ i = Len(Children)
               THEN [R EXCEPT !.resume = 1, !.stage = "done"]
             ELSE R

\* the sleeps inside the body of a tick that ended as R, in tenths of a
\* second: time.sleep(1.0) of a command gate that returns RUNNING,
\* time.sleep(0.5) before each pickup attempt, 0.3 for each turn command of
\* the flag search and 0.5 for its final move_forward
TickSleepTenths(R) ==
    (IF R.nodes # <<>> /\ R.nodes[Len(R.nodes)] = "Wait for Patrol Command"
        /\ ~R.raised /\ R.status = RUNNING THEN 10 ELSE 0)
    + 5 * R.pk.n + 3 * R.turns + (IF R.pk.arrived THEN 5 ELSE 0)

\* the whole seconds the body of a tick that ended as R takes at least
TickSeconds(R) == TickSleepTenths(R) \div 10

\* the state after a tick that ended as R: an exception leaves run() and is
\* handled by PooperScooperSystem.run, which triggers the emergency stop
TickEffects(R) ==
    /\ nav_state' = R.nav
    /\ arm_state' = R.arm
    /\ arm_hist' = R.hist
    /\ sm_prev' = R.prev
    /\ retry_attempts' = R.att
    /\ stall_detected' = R.sd
    /\ current_motor' = R.cm
    /\ strat_hist' = R.strats
    /\ patrol_active' = R.active
    /\ initialized' = R.init
    /\ current_waypoint_idx' = R.idx
    /\ pickup_count' = R.count
    /\ current_child' = R.resume
    /\ nodes_run' = R.nodes
    /\ motions' = R.motions
    /\ last_pickup' = R.pk
    /\ ticks' = ticks + 1
    /\ emergency_stop' = IF R.raised THEN TriggerValue(emergency_stop)
                         ELSE emergency_stop
    /\ stop_reason' = IF R.raised
                        THEN ReasonAfter(emergency_stop, stop_reason, "Exception")
                        ELSE stop_reason
    /\ loop_pc' = IF R.raised THEN "halted" ELSE "check"
    /\ op' = <<"tree", "tick">>
    /\ ret' = IF R.raised THEN "raised" ELSE R.status
    /\ UNCHANGED <<now, start_time, stall_count, running, mon_pc, mon_time,
                   mon_polled, mon_regular, baseline_frequencies, calibration,
                   waypoints,
                   collab_vars, rows_vars, nav_vars>>

\* a whole tick at one instant: self.safety.heartbeat(), then the tree
TickCommit(R) ==
    /\ last_heartbeat' = now
    /\ tick_es' = emergency_stop
    /\ tick_end' = now
    /\ tick_result' = NoResult
    /\ TickEffects(R)

\* PooperScooperBehaviorTree.tick, one iteration of run: heartbeat, then
\* root.tick_once(): the children R1..R4 of the Sequence in order, and inside
\* the patrol cycle the attempts a1..a4 of _pickup_with_retry
TickResults(es) ==
    UNION {UNION {UNION {UNION {UNION {
      IF R4.stage = "pickup"
        THEN UNION {UNION {UNION {UNION {UNION {UNION {UNION {UNION {
               {PatrolUpdateTail(a4, steer) : steer \in SteeringAfter(a4)}
               : a4 \in {NextAttempt(a3, x4)}}
               : x4 \in InputsAfter(a3)}
               : a3 \in {NextAttempt(a2, x3)}}
               : x3 \in InputsAfter(a2)}
               : a2 \in {NextAttempt(a1, x2)}}
               : x2 \in InputsAfter(a1)}
               : a1 \in {PickupAttempt(R4, x1)}}
               : x1 \in AttemptInputs}
        ELSE {R4}
      : R4 \in {SequenceStep(4, R3, current_child, es, f[1], f[2], f[3])}}
      : R3 \in {SequenceStep(3, R2, current_child, es, f[1], f[2], f[3])}}
      : R2 \in {SequenceStep(2, R1, current_child, es, f[1], f[2], f[3])}}
      : R1 \in {SequenceStep(1, TickStart, current_child, es,
                             f[1], f[2], f[3])}}
      : f \in BOOLEAN \X BOOLEAN \X BOOLEAN}

\* PooperScooperBehaviorTree.tick taken as one step
Tick ==
    /\ loop_pc = "tick"
    /\ ticks < MaxTicks
    /\ \E R \in TickResults(emergency_stop) : TickCommit(R)

\* run: after a tick, break on emergency_stop, else sleep and go on while
\* iterations are left
LoopCheck ==
    /\ loop_pc = "check"
    /\ loop_pc' = IF emergency_stop \/ ticks >= MaxTicks THEN "halted" ELSE "tick"
    /\ op' = <<"tree", "loop_check">> /\ ret' = NoRet
    /\ UNCHANGED <<safety_vars, sm_vars, audio_vars, current_child, patrol_active,
                   initialized, waypoints, current_waypoint_idx, pickup_count,
                   collab_vars, ticks, tick_es, nodes_run, motions,
                   last_pickup, tick_end, tick_result, rows_vars, nav_vars>>

\* PooperScooperSystem.run: start_watchdog(), then behavior_tree.run()
LoopStart ==
    /\ loop_pc = "idle"
    /\ mon_pc = "off"
    /\ running' = TRUE
    /\ mon_pc' = "loop"
    /\ loop_pc' = "tick"
    /\ op' = <<"tree", "run">> /\ ret' = NoRet
    /\ UNCHANGED <<now, last_heartbeat, start_time, emergency_stop, stall_count,
                   stop_reason, mon_time, mon_polled, mon_regular>>
    /\ UNCHANGED <<sm_vars, audio_vars, current_child, patrol_active,
                   initialized, waypoints, current_waypoint_idx, pickup_count,
                   collab_vars, ticks, tick_es, nodes_run, motions,
                   last_pickup, tick_end, tick_result, rows_vars, nav_vars>>

\* PooperScooperSystem.start_patrol_from_web
WebStartPatrol ==
    /\ patrol_active' = TRUE
    /\ op' = <<"web", "start_patrol">> /\ ret' = NoRet
    /\ UNCHANGED <<safety_vars, sm_vars, audio_vars, loop_pc, current_child,
                   initialized, waypoints, current_waypoint_idx, pickup_count,
                   collab_vars, ticks, tick_es, nodes_run, motions,
                   last_pickup, tick_end, tick_result, rows_vars, nav_vars>>

\* PooperScooperSystem.stop_patrol_from_web, return_home_from_web
WebStopPatrol ==
    /\ patrol_active' = FALSE
    /\ op' = <<"web", "stop_patrol">> /\ ret' = NoRet
    /\ UNCHANGED <<safety_vars, sm_vars, audio_vars, loop_pc, current_child,
                   initialized, waypoints, current_waypoint_idx, pickup_count,
                   collab_vars, ticks, tick_es, nodes_run, motions,
                   last_pickup, tick_end, tick_result, rows_vars, nav_vars>>

(***************************************************************************)
(* PatrolPlanner (control/patrol_planner.py)                               *)
(* Lengths of the configuration are whole length units; a position is a    *)
(* pair of coordinates in units of 1/PosScale of a length unit, which      *)
(* makes the cell centres and the overlap percentages whole numbers.       *)
(* start_time, which only get_patrol_statistics reads, is left out.        *)
(***************************************************************************)
\* CellStatus
UNVISITED == 0
VISITED == 1
OBSTACLE == 2

\* PatternType
LAWNMOWER == "lawnmower"
SPIRAL == "spiral"
GRID == "grid"

\* int(np.ceil(a / b)) for positive a, b
CeilDiv(a, b) == (a + b - 1) \div b

\* Python int(a / b) for b > 0: truncation toward zero
TruncDiv(a, b) == IF a >= 0 THEN a \div b ELSE 0 - ((0 - a) \div b)

\* PatrolPlanner.__init__ / MapManager.__init__: grid dimensions
grid_cols == CeilDiv(cfg.width, cfg.cell)
grid_rows == CeilDiv(cfg.height, cfg.cell)
total_cells == grid_rows * grid_cols

\* the cells of the grid, as (row, col)
Cells == (0 .. grid_rows - 1) \X (0 .. grid_cols - 1)

\* np.zeros((grid_rows, grid_cols))
EmptyGrid == [cell \in Cells |-> UNVISITED]

\* no file has been written by save_coverage_map
NoFile == <<>>

\* get_next_waypoint returning None
NoWaypoint == <<>>

\* configurations of an area of at most w by h length units; the overlap is
\* read by the lawnmower pattern only
Configs(w, h) ==
    {c \in [x : Origins, y : Origins, width : 1 .. w, height : 1 .. h,
            cell : CellSizes, overlap : Overlaps,
            pattern : {LAWNMOWER, SPIRAL, GRID}] :
        /\ c.x = c.y
        /\ c.pattern # LAWNMOWER => c.overlap = 0}

\* the configurations of the areas up to MaxWidth by MaxHeight
PlannerConfigs == Configs(MaxWidth, MaxHeight)

\* the configurations of a planner whose grid is marked
MapConfigs ==
    {c \in PlannerConfigs :
        CeilDiv(c.width, c.cell) * CeilDiv(c.height, c.cell) <= MaxCells}

\* the configurations of a planner whose route is generated and consumed
RouteConfigs == Configs(MaxRoute, MaxRoute)

\* the configuration of the other specifications
DefaultConfig ==
    [x |-> 0, y |-> 0, width |-> 2, height |-> 2, cell |-> 1, overlap |-> 0,
     pattern |-> LAWNMOWER]

\* PatrolPlanner.__init__
PlannerFieldsInit ==
    /\ coverage_grid = EmptyGrid
    /\ planner_waypoints = <<>>
    /\ current_waypoint_index = 0
    /\ returned = <<>>
    /\ saved_map = NoFile

\* centre of column or row k on an axis starting at origin, for a step of
\* size (in position units): origin + (k + 0.5) * size
Centre(origin, k, size) == origin * PosScale + ((2 * k + 1) * size) \div 2

\* _generate_lawnmower: effective_size = cell_size * (1 - overlap_percent / 100)
effective_size == (cfg.cell * PosScale * (100 - cfg.overlap)) \div 100

\* one sweep of the columns in the order cols, on row row of the route, the
\* waypoints spaced by size
Sweep(cols, row, size) ==
    [k \in DOMAIN cols |->
        <<Centre(cfg.x, cols[k], size), Centre(cfg.y, row, size)>>]

\* range(a, b + 1)
Up(a, b) == [k \in 1 .. (IF b >= a THEN b - a + 1 ELSE 0) |-> a + k - 1]

\* range(b, a - 1, -1)
Down(b, a) == [k \in 1 .. (IF b >= a THEN b - a + 1 ELSE 0) |-> b - k + 1]

\* one run of the rows in the order rows, on column col
Run(rows, col, size) ==
    [k \in DOMAIN rows |->
        <<Centre(cfg.x, col, size), Centre(cfg.y, rows[k], size)>>]

\* _generate_lawnmower: the rows from row on
RECURSIVE LawnmowerFrom(_)
LawnmowerFrom(row) ==
    IF row >= grid_rows THEN <<>>
    ELSE (IF row % 2 = 0
            THEN Sweep(Up(0, grid_cols - 1), row, effective_size)
            ELSE Sweep(Down(grid_cols - 1, 0), row, effective_size))
         \o LawnmowerFrom(row + 1)

\* _generate_grid: the rows from row on
RECURSIVE GridFrom(_)
GridFrom(row) ==
    IF row >= grid_rows THEN <<>>
    ELSE Sweep(Up(0, grid_cols - 1), row, cfg.cell * PosScale)
         \o GridFrom(row + 1)

\* _generate_spiral: the iterations of the while loop from the given bounds on
RECURSIVE SpiralFrom(_, _, _, _)
SpiralFrom(min_row, max_row, min_col, max_col) ==
    IF ~(min_row <= max_row /\ min_col <= max_col) THEN <<>>
    ELSE LET size == cfg.cell * PosScale
             top == Sweep(Up(min_col, max_col), min_row, size)
             right == Run(Up(min_row + 1, max_row), max_col, size)
             bottom == IF min_row + 1 <= max_row
                         THEN Sweep(Down(max_col - 1, min_col), max_row, size)
                         ELSE <<>>
             max_row2 == IF min_row + 1 <= max_row THEN max_row - 1 ELSE max_row
             left == IF min_col <= max_col - 1
                       THEN Run(Down(max_row2, min_row + 1), min_col, size)
                       ELSE <<>>
             min_col2 == IF min_col <= max_col - 1 THEN min_col + 1 ELSE min_col
         IN  top \o right \o bottom \o left
             \o SpiralFrom(min_row + 1, max_row2, min_col2, max_col - 1)

\* a generate_patrol_path that sweeps every row left to right
GeneratedRowByRow == GridFrom(0)

\* generate_patrol_path: the waypoints of the configured pattern
GeneratedWaypoints ==
    IF cfg.pattern = LAWNMOWER THEN LawnmowerFrom(0)
    ELSE IF cfg.pattern = SPIRAL
      THEN SpiralFrom(0, grid_rows - 1, 0, grid_cols - 1)
    ELSE GridFrom(0)

\* PatrolPlanner.generate_patrol_path (the cursor is not touched)
GeneratePatrolPath ==
    /\ planner_waypoints' = GeneratedWaypoints
    /\ returned' = IF planner_waypoints = GeneratedWaypoints THEN returned
                   ELSE <<>>
    /\ op' = <<"planner", "generate_patrol_path">> /\ ret' = NoRet
    /\ UNCHANGED <<cfg, coverage_grid, current_waypoint_index, saved_map>>

\* PatrolPlanner.mark_visited: the cell a position is converted to
PlannerCell(p) ==
    <<TruncDiv(p[2] - cfg.y * PosScale, cfg.cell * PosScale),
      TruncDiv(p[1] - cfg.x * PosScale, cfg.cell * PosScale)>>

\* a mark_visited that flips the cell instead of setting it
MarkedGridFlip(grid, p) ==
    IF PlannerCell(p) \in Cells
    THEN [grid EXCEPT ![PlannerCell(p)] = IF @ = VISITED THEN UNVISITED ELSE VISITED]
    ELSE grid

\* PatrolPlanner.mark_visited: the grid after the call
MarkedGrid(grid, p) ==
    IF PlannerCell(p) \in Cells
      THEN [grid EXCEPT ![PlannerCell(p)] = VISITED]
      ELSE grid

\* positions handed to mark_visited: half a length unit apart on each axis,
\* from one and a half length units before the origin of the area on
MarkPositions ==
    {<<(cfg.x * 2 + i) * (PosScale \div 2), (cfg.y * 2 + j) * (PosScale \div 2)>> :
        i \in MarkOffsets, j \in MarkOffsets}

\* PatrolPlanner.mark_visited
MarkVisited ==
    \E p \in MarkPositions :
        /\ coverage_grid' = MarkedGrid(coverage_grid, p)
        /\ op' = <<"planner", "mark_visited">> /\ ret' = NoRet
        /\ UNCHANGED <<cfg, planner_waypoints, current_waypoint_index, returned,
                       saved_map>>

\* np.sum(grid == CellStatus.VISITED.value)
VisitedCells(grid) == Cardinality({cell \in DOMAIN grid : grid[cell] = VISITED})

\* PatrolPlanner.get_coverage_percentage, in hundredths of a percent
CoveragePercentage(grid) == (VisitedCells(grid) * 10000) \div total_cells

\* PatrolPlanner.is_patrol_complete with the default threshold 95.0
IsPatrolComplete(grid) == CoveragePercentage(grid) >= 9500

\* a get_next_waypoint that does not advance the cursor
GetNextWaypointRepeat ==
    /\ Len(returned) < Len(planner_waypoints) + MaxNone
    /\ returned' = Append(returned,
                          IF current_waypoint_index < Len(planner_waypoints)
                          THEN planner_waypoints[current_waypoint_index + 1]
                          ELSE NoWaypoint)
    /\ op' = <<"planner", "get_next_waypoint">> /\ ret' = NoRet
    /\ UNCHANGED <<cfg, coverage_grid, planner_waypoints, current_waypoint_index,
                   saved_map>>

\* PatrolPlanner.get_next_waypoint
GetNextWaypoint ==
    /\ Len(returned) < Len(planner_waypoints) + MaxNone
    /\ IF current_waypoint_index < Len(planner_waypoints)
         THEN /\ returned' = Append(returned,
                                    planner_waypoints[current_waypoint_index + 1])
              /\ current_waypoint_index' = current_waypoint_index + 1
         ELSE /\ returned' = Append(returned, NoWaypoint)
              /\ UNCHANGED current_waypoint_index
    /\ op' = <<"planner", "get_next_waypoint">> /\ ret' = NoRet
    /\ UNCHANGED <<cfg, coverage_grid, planner_waypoints, saved_map>>

\* PatrolPlanner.has_more_waypoints
HasMoreWaypoints ==
    /\ op' = <<"planner", "has_more_waypoints">>
    /\ ret' = Bool(current_waypoint_index < Len(planner_waypoints))
    /\ UNCHANGED planner_vars

\* a reset_patrol that also drops the route
ResetPatrolClearRoute ==
    /\ coverage_grid' = [cell \in DOMAIN coverage_grid |-> UNVISITED]
    /\ current_waypoint_index' = 0
    /\ returned' = <<>>
    /\ planner_waypoints' = <<>>
    /\ op' = <<"planner", "reset_patrol">> /\ ret' = NoRet
    /\ UNCHANGED <<cfg, saved_map>>

\* PatrolPlanner.reset_patrol
ResetPatrol ==
    /\ coverage_grid' = [cell \in DOMAIN coverage_grid |-> UNVISITED]
    /\ current_waypoint_index' = 0
    /\ returned' = <<>>
    /\ op' = <<"planner", "reset_patrol">> /\ ret' = NoRet
    /\ UNCHANGED <<cfg, planner_waypoints, saved_map>>

\* PatrolPlanner.save_coverage_map
SaveCoverageMap ==
    /\ saved_map' = <<coverage_grid>>
    /\ op' = <<"planner", "save_coverage_map">> /\ ret' = NoRet
    /\ UNCHANGED <<cfg, coverage_grid, planner_waypoints, current_waypoint_index,
                   returned>>

\* PatrolPlanner.load_coverage_map, of the file save_coverage_map wrote;
\* np.load raises when there is no such file
LoadCoverageMap ==
    /\ coverage_grid' = IF saved_map = NoFile THEN coverage_grid ELSE saved_map[1]
    /\ op' = <<"planner", "load_coverage_map">>
    /\ ret' = IF saved_map = NoFile THEN "raised" ELSE NoRet
    /\ UNCHANGED <<cfg, planner_waypoints, current_waypoint_index, returned,
                   saved_map>>

\* ---------------------------------------------------------------------
\* MapManager
\* ---------------------------------------------------------------------

Min(a, b) == IF a <= b THEN a ELSE b
Max(a, b) == IF a >= b THEN a ELSE b

\* MapManager.__init__: the occupancy grid, all unvisited
MapFieldsInit == occupancy_grid = EmptyGrid

\* MapManager.position_to_grid: the truncated quotient, clamped to the grid
PositionToGrid(p) ==
    LET col == TruncDiv(p[1] - cfg.x * PosScale, cfg.cell * PosScale)
        row == TruncDiv(p[2] - cfg.y * PosScale, cfg.cell * PosScale)
    IN  <<Max(0, Min(row, grid_rows - 1)), Max(0, Min(col, grid_cols - 1))>>

\* MapManager.grid_to_position: the centre of the cell
GridToPosition(cell) ==
    <<Centre(cfg.x, cell[2], cfg.cell * PosScale),
      Centre(cfg.y, cell[1], cfg.cell * PosScale)>>

\* the occupancy grid after MapManager.mark_visited(p)
MapMarkedGrid(grid, p) == [grid EXCEPT ![PositionToGrid(p)] = 1]

\* MapManager.mark_visited
MapMarkVisited ==
    \E p \in MarkPositions :
        /\ occupancy_grid' = MapMarkedGrid(occupancy_grid, p)
        /\ op' = <<"map", "mark_visited">> /\ ret' = NoRet
        /\ UNCHANGED <<planner_vars, path_vars>>

\* MapManager.reset_occupancy
ResetOccupancy ==
    /\ occupancy_grid' = EmptyGrid
    /\ op' = <<"map", "reset_occupancy">> /\ ret' = NoRet
    /\ UNCHANGED <<planner_vars, path_vars>>

\* PathPlanner.__init__: no path requested yet
PathFieldsInit ==
    /\ plan_start = <<0, 0>>
    /\ plan_goal = <<0, 0>>
    /\ path = <<>>

\* ---------------------------------------------------------------------
\* PathPlanner
\* ---------------------------------------------------------------------

\* the grids the path planner searches
PathConfigs == {c \in Configs(MaxGrid, MaxGrid) : c.pattern = GRID}

\* the goal cells a caller passes: the cells of the grid and the ring of
\* cells around it
GoalCells == ((0 - 1) .. grid_rows) \X ((0 - 1) .. grid_cols)

Abs(a) == IF a >= 0 THEN a ELSE 0 - a

\* heuristic: the Manhattan distance
Heuristic(a, b) == Abs(a[1] - b[1]) + Abs(a[2] - b[2])

InGrid(cell) == cell \in Cells

\* a get_neighbors that also steps diagonally
NeighborsDiagonal(cell) ==
    SelectSeq(<<<<cell[1] - 1, cell[2] - 1>>, <<cell[1] + 1, cell[2] + 1>>,
                <<cell[1] - 1, cell[2]>>, <<cell[1] + 1, cell[2]>>,
                <<cell[1], cell[2] - 1>>, <<cell[1], cell[2] + 1>>>>, InGrid)

\* get_neighbors: the 4-connected cells inside the grid, in the order
\* up, down, left, right
Neighbors(cell) ==
    SelectSeq(<<<<cell[1] - 1, cell[2]>>, <<cell[1] + 1, cell[2]>>,
                <<cell[1], cell[2] - 1>>, <<cell[1], cell[2] + 1>>>>, InGrid)

\* heapq.heappop: the entry (f, counter, cell) least in f, then in counter
HeapMin(open) ==
    CHOOSE e \in open :
        \A o \in open : e[1] < o[1] \/ (e[1] = o[1] /\ e[2] <= o[2])

\* the body of the for loop: relax one neighbour of current
Relax(S, current, neighbor, goal) ==
    LET tentative_g == S.g[current] + 1
    IN  IF neighbor \notin DOMAIN S.g \/ tentative_g < S.g[neighbor]
        THEN [open |-> S.open \cup {<<tentative_g + Heuristic(neighbor, goal),
                                      S.counter + 1, neighbor>>},
              came_from |-> (neighbor :> current) @@ S.came_from,
              g |-> (neighbor :> tentative_g) @@ S.g,
              counter |-> S.counter + 1]
        ELSE S

\* the for loop over the neighbours of current, from the i-th on
RECURSIVE RelaxAll(_, _, _, _, _)
RelaxAll(S, current, ns, goal, i) ==
    IF i > Len(ns) THEN S
    ELSE RelaxAll(Relax(S, current, ns[i], goal), current, ns, goal, i + 1)

\* the reconstruction loop: the cells from the first one without a
\* predecessor (excluded) to current
RECURSIVE Reconstruct(_, _)
Reconstruct(came_from, current) ==
    IF current \in DOMAIN came_from
    THEN Reconstruct(came_from, came_from[current]) \o <<current>>
    ELSE <<>>

\* the while loop of _astar
RECURSIVE AstarLoop(_, _, _)
AstarLoop(S, start, goal) ==
    IF S.open = {} THEN <<>>
    ELSE LET e == HeapMin(S.open)
             current == e[3]
         IN  IF current = goal
             THEN <<start>> \o Reconstruct(S.came_from, current)
             ELSE AstarLoop(RelaxAll([S EXCEPT !.open = @ \ {e}], current,
                                     Neighbors(current), goal, 1),
                            start, goal)

\* PathPlanner._astar
Astar(start, goal) ==
    AstarLoop([open |-> {<<0, 0, start>>},
               came_from |-> [c \in {} |-> c],
               g |-> (start :> 0),
               counter |-> 0], start, goal)

\* PathPlanner.plan_path
PlanPathResult(start, goal) ==
    LET path_grid == Astar(PositionToGrid(start), PositionToGrid(goal))
    IN  [k \in DOMAIN path_grid |-> GridToPosition(path_grid[k])]

\* a call of _astar with the requested cells
AstarCall ==
    /\ path' = Astar(plan_start, plan_goal)
    /\ op' = <<"path_planner", "_astar">> /\ ret' = NoRet
    /\ UNCHANGED <<planner_vars, map_vars, plan_start, plan_goal>>

\* a call of plan_path with the centres of the requested cells
PlanPath ==
    /\ path' = PlanPathResult(GridToPosition(plan_start), GridToPosition(plan_goal))
    /\ op' = <<"path_planner", "plan_path">> /\ ret' = NoRet
    /\ UNCHANGED <<planner_vars, map_vars, plan_start, plan_goal>>

\* the collaborators of the navigation layer, built from the configuration
NavInit ==
    /\ cfg = DefaultConfig
    /\ PlannerFieldsInit
    /\ MapFieldsInit
    /\ PathFieldsInit

\* the program after construction
Init ==
    /\ SafetyInit
    /\ SMInit
    /\ AudioInit
    /\ TreeInit
    /\ NavInit
    /\ op = <<"init", "init">>
    /\ ret = NoRet

\* the SafetySystem driven through its public methods, with its watchdog thread
NextSafety ==
    \/ Advance /\ UNCHANGED <<sm_vars, audio_vars, tree_vars, nav_vars>>
    \/ Heartbeat /\ UNCHANGED <<sm_vars, audio_vars, tree_vars, nav_vars>>
    \/ CallIsSafe /\ UNCHANGED <<sm_vars, audio_vars, tree_vars, nav_vars>>
    \/ TriggerEmergencyStop /\ UNCHANGED <<sm_vars, audio_vars, tree_vars, nav_vars>>
    \/ ResetEmergencyStop /\ UNCHANGED <<sm_vars, audio_vars, tree_vars, nav_vars>>
    \/ ReportStall /\ UNCHANGED <<sm_vars, audio_vars, tree_vars, nav_vars>>
    \/ ResetStallCounter /\ UNCHANGED <<sm_vars, audio_vars, tree_vars, nav_vars>>
    \/ StartWatchdog /\ UNCHANGED <<sm_vars, audio_vars, tree_vars, nav_vars>>
    \/ StopWatchdog /\ UNCHANGED <<sm_vars, audio_vars, tree_vars, nav_vars>>
    \/ MonitorCheck /\ UNCHANGED <<sm_vars, audio_vars, tree_vars, nav_vars>>
    \/ MonitorTriggerHeartbeat /\ UNCHANGED <<sm_vars, audio_vars, tree_vars, nav_vars>>
    \/ MonitorTriggerOperation /\ UNCHANGED <<sm_vars, audio_vars, tree_vars, nav_vars>>

SpecSafety == Init /\ [][NextSafety]_vars

\* the two state machines driven through their trigger methods
NextSM ==
    \/ NavTrigger /\ UNCHANGED <<safety_vars, audio_vars, tree_vars, nav_vars>>
    \/ ArmTrigger /\ UNCHANGED <<safety_vars, audio_vars, tree_vars, nav_vars>>

SpecSM == Init /\ [][NextSM]_vars

\* the stall detector driven through its methods
NextAudio ==
    \/ HandleStall /\ UNCHANGED <<safety_vars, sm_vars, tree_vars, nav_vars>>
    \/ ResetStallFlag /\ UNCHANGED <<safety_vars, sm_vars, tree_vars, nav_vars>>
    \/ CheckForStall /\ UNCHANGED <<safety_vars, sm_vars, tree_vars, nav_vars>>
    \/ CalibrateMotor /\ UNCHANGED <<safety_vars, sm_vars, tree_vars, nav_vars>>

SpecAudio == Init /\ [][NextAudio]_vars

\* the control loop with the watchdog thread and the web commands beside it
InitTree ==
    /\ SafetyInit
    /\ SMInit
    /\ AudioInit
    /\ TreeInitOptional
    /\ NavInit
    /\ op = <<"init", "init">>
    /\ ret = NoRet

NextTree ==
    \/ LoopStart
    \/ Tick
    \/ LoopCheck
    \/ WebStartPatrol
    \/ WebStopPatrol
    \/ Advance /\ UNCHANGED <<sm_vars, audio_vars, tree_vars, nav_vars>>
    \/ MonitorCheck /\ UNCHANGED <<sm_vars, audio_vars, tree_vars, nav_vars>>
    \/ MonitorTriggerHeartbeat /\ UNCHANGED <<sm_vars, audio_vars, tree_vars, nav_vars>>
    \/ MonitorTriggerOperation /\ UNCHANGED <<sm_vars, audio_vars, tree_vars, nav_vars>>

\* a PatrolPlanner built with any of the configurations and driven through
\* its methods
InitPlanner ==
    /\ SafetyInit
    /\ SMInit
    /\ AudioInit
    /\ TreeInit
    /\ cfg \in MapConfigs
    /\ PlannerFieldsInit
    /\ MapFieldsInit
    /\ PathFieldsInit
    /\ op = <<"init", "init">>
    /\ ret = NoRet

NextPlanner ==
    \/ GeneratePatrolPath /\ UNCHANGED <<safety_vars, sm_vars, audio_vars, tree_vars, map_vars, path_vars>>
    \/ MarkVisited /\ UNCHANGED <<safety_vars, sm_vars, audio_vars, tree_vars, map_vars, path_vars>>
    \/ GetNextWaypoint /\ UNCHANGED <<safety_vars, sm_vars, audio_vars, tree_vars, map_vars, path_vars>>
    \/ ResetPatrol /\ UNCHANGED <<safety_vars, sm_vars, audio_vars, tree_vars, map_vars, path_vars>>

SpecPlanner == InitPlanner /\ [][NextPlanner]_vars

\* a PatrolPlanner whose coverage map is marked, saved and loaded
InitStore ==
    /\ SafetyInit
    /\ SMInit
    /\ AudioInit
    /\ TreeInit
    /\ cfg \in MapConfigs
    /\ PlannerFieldsInit
    /\ MapFieldsInit
    /\ PathFieldsInit
    /\ op = <<"init", "init">>
    /\ ret = NoRet

NextStore ==
    \/ MarkVisited /\ UNCHANGED <<safety_vars, sm_vars, audio_vars, tree_vars, map_vars, path_vars>>
    \/ ResetPatrol /\ UNCHANGED <<safety_vars, sm_vars, audio_vars, tree_vars, map_vars, path_vars>>
    \/ SaveCoverageMap /\ UNCHANGED <<safety_vars, sm_vars, audio_vars, tree_vars, map_vars, path_vars>>
    \/ LoadCoverageMap /\ UNCHANGED <<safety_vars, sm_vars, audio_vars, tree_vars, map_vars, path_vars>>

SpecStore == InitStore /\ [][NextStore]_vars

\* a PatrolPlanner whose route is generated, consumed and replayed
InitRoute ==
    /\ SafetyInit
    /\ SMInit
    /\ AudioInit
    /\ TreeInit
    /\ cfg \in RouteConfigs
    /\ PlannerFieldsInit
    /\ MapFieldsInit
    /\ PathFieldsInit
    /\ op = <<"init", "init">>
    /\ ret = NoRet

NextRoute ==
    \/ GeneratePatrolPath /\ UNCHANGED <<safety_vars, sm_vars, audio_vars, tree_vars, map_vars, path_vars>>
    \/ GetNextWaypoint /\ UNCHANGED <<safety_vars, sm_vars, audio_vars, tree_vars, map_vars, path_vars>>
    \/ HasMoreWaypoints /\ UNCHANGED <<safety_vars, sm_vars, audio_vars, tree_vars, map_vars, path_vars>>
    \/ ResetPatrol /\ UNCHANGED <<safety_vars, sm_vars, audio_vars, tree_vars, map_vars, path_vars>>

SpecRoute == InitRoute /\ [][NextRoute]_vars

\* the grid after mark_visited was called on each position of wps in turn
RECURSIVE MarkedAll(_, _)
MarkedAll(grid, wps) ==
    IF wps = <<>> THEN grid
    ELSE MarkedAll(MarkedGrid(grid, Head(wps)), Tail(wps))

\* a caller drives the route: mark_visited on every generated waypoint
MarkWaypoints ==
    /\ planner_waypoints # <<>>
    /\ coverage_grid' = MarkedAll(coverage_grid, planner_waypoints)
    /\ op' = <<"planner", "mark_waypoints">> /\ ret' = NoRet
    /\ UNCHANGED <<cfg, planner_waypoints, current_waypoint_index, returned,
                   saved_map>>

\* a PatrolPlanner whose route is generated and driven, session after session
NextCover ==
    \/ GeneratePatrolPath /\ UNCHANGED <<safety_vars, sm_vars, audio_vars, tree_vars, map_vars, path_vars>>
    \/ MarkWaypoints /\ UNCHANGED <<safety_vars, sm_vars, audio_vars, tree_vars, map_vars, path_vars>>
    \/ ResetPatrol /\ UNCHANGED <<safety_vars, sm_vars, audio_vars, tree_vars, map_vars, path_vars>>

SpecCover == InitRoute /\ [][NextCover]_vars

\* a PatrolPlanner and a MapManager over the same configured area, marking
\* positions
InitMap ==
    /\ SafetyInit
    /\ SMInit
    /\ AudioInit
    /\ TreeInit
    /\ cfg \in MapConfigs
    /\ PlannerFieldsInit
    /\ MapFieldsInit
    /\ PathFieldsInit
    /\ op = <<"init", "init">>
    /\ ret = NoRet

NextMap ==
    \/ MarkVisited /\ UNCHANGED <<safety_vars, sm_vars, audio_vars, tree_vars, map_vars, path_vars>>
    \/ ResetPatrol /\ UNCHANGED <<safety_vars, sm_vars, audio_vars, tree_vars, map_vars, path_vars>>
    \/ MapMarkVisited /\ UNCHANGED <<safety_vars, sm_vars, audio_vars, tree_vars>>
    \/ ResetOccupancy /\ UNCHANGED <<safety_vars, sm_vars, audio_vars, tree_vars>>

SpecMap == InitMap /\ [][NextMap]_vars

\* a PathPlanner over the grid of a MapManager, asked for one path
InitPath ==
    /\ SafetyInit
    /\ SMInit
    /\ AudioInit
    /\ TreeInit
    /\ cfg \in PathConfigs
    /\ PlannerFieldsInit
    /\ MapFieldsInit
    /\ plan_start \in Cells
    /\ plan_goal \in GoalCells
    /\ path = <<>>
    /\ op = <<"init", "init">>
    /\ ret = NoRet

NextPath ==
    \/ AstarCall /\ UNCHANGED <<safety_vars, sm_vars, audio_vars, tree_vars>>
    \/ PlanPath /\ UNCHANGED <<safety_vars, sm_vars, audio_vars, tree_vars>>

SpecPath == InitPath /\ [][NextPath]_vars

\* the coverage maps of the planner's shape a file can hold
MapFiles == [Cells -> {UNVISITED, VISITED, OBSTACLE}]

\* PatrolPlanner.load_coverage_map of a map file that was not written by
\* save_coverage_map: np.load takes the array as it is
LoadMapFile ==
    \E file \in MapFiles :
        /\ coverage_grid' = file
        /\ op' = <<"planner", "load_coverage_map">> /\ ret' = NoRet
        /\ UNCHANGED <<cfg, planner_waypoints, current_waypoint_index, returned,
                       saved_map>>

\* a PathPlanner asked for one path over an area whose coverage map, with
\* its obstacles, is loaded from a file
InitObstacle ==
    /\ SafetyInit
    /\ SMInit
    /\ AudioInit
    /\ TreeInit
    /\ cfg \in {c \in MapConfigs : c.pattern = GRID}
    /\ PlannerFieldsInit
    /\ MapFieldsInit
    /\ plan_start \in Cells
    /\ plan_goal \in Cells
    /\ path = <<>>
    /\ op = <<"init", "init">>
    /\ ret = NoRet

NextObstacle ==
    \/ LoadMapFile /\ UNCHANGED <<safety_vars, sm_vars, audio_vars, tree_vars, map_vars, path_vars>>
    \/ AstarCall /\ UNCHANGED <<safety_vars, sm_vars, audio_vars, tree_vars>>
    \/ PlanPath /\ UNCHANGED <<safety_vars, sm_vars, audio_vars, tree_vars>>

SpecObstacle == InitObstacle /\ [][NextObstacle]_vars

SpecTree == InitTree /\ [][NextTree]_vars

\* the caller that built the navigation machine fires triggers on it before
\* it starts the control loop
NavSetup ==
    /\ loop_pc = "idle"
    /\ NavTrigger
    /\ UNCHANGED <<safety_vars, audio_vars, tree_vars, nav_vars>>

\* the control loop with the web commands, on a navigation machine that its
\* caller has driven before
NextPatrol ==
    \/ LoopStart
    \/ Tick
    \/ LoopCheck
    \/ WebStartPatrol
    \/ WebStopPatrol
    \/ NavSetup

SpecPatrol == InitTree /\ [][NextPatrol]_vars

\* the body of a tick is executing
InTick == loop_pc = "body"

\* PooperScooperBehaviorTree.tick is entered: self.safety.heartbeat(), and
\* the tree starts on what this tick will do
TickEnter ==
    /\ loop_pc = "tick"
    /\ ticks < MaxTicks
    /\ \E R \in TickResults(emergency_stop) :
          /\ tick_result' = R
          /\ tick_end' = now + TickSeconds(R)
    /\ last_heartbeat' = now
    /\ tick_es' = emergency_stop
    /\ loop_pc' = "body"
    /\ op' = <<"tree", "tick_enter">> /\ ret' = NoRet
    /\ UNCHANGED <<now, start_time, emergency_stop, stall_count, running,
                   mon_pc, mon_time, mon_polled, mon_regular, stop_reason,
                   sm_vars, audio_vars, current_child, patrol_active,
                   initialized, waypoints, current_waypoint_idx, pickup_count,
                   collab_vars, ticks, nodes_run, motions, last_pickup,
                   rows_vars, nav_vars>>

\* the clock advances while the body of a tick sleeps
TickSleep ==
    /\ InTick
    /\ now < tick_end
    /\ Advance
    /\ UNCHANGED <<sm_vars, audio_vars, tree_vars, nav_vars>>

\* PooperScooperBehaviorTree.tick returns or raises, its sleeps over
TickReturn ==
    /\ InTick
    /\ now = tick_end
    /\ TickEffects(tick_result)
    /\ tick_result' = NoResult
    /\ UNCHANGED <<last_heartbeat, tick_es, tick_end>>

\* the caller fires nav_sm.start_patrol() before it starts the control loop
NavStartPatrol ==
    /\ loop_pc = "idle"
    /\ nav_state = "idle"
    /\ NavTrigger
    /\ op' = <<"nav", "start_patrol">>
    /\ UNCHANGED <<safety_vars, audio_vars, tree_vars, nav_vars>>

\* start_patrol_from_web between two ticks
WebStartBetweenTicks ==
    /\ ~InTick
    /\ WebStartPatrol

\* the control loop, whose ticks take the time their sleeps take, with the
\* watchdog thread beside it
NextBeat ==
    \/ LoopStart
    \/ TickEnter
    \/ TickSleep
    \/ TickReturn
    \/ LoopCheck
    \/ WebStartBetweenTicks
    \/ NavStartPatrol
    \/ MonitorCheck /\ UNCHANGED <<sm_vars, audio_vars, tree_vars, nav_vars>>
    \/ MonitorTriggerHeartbeat /\ UNCHANGED <<sm_vars, audio_vars, tree_vars, nav_vars>>
    \/ MonitorTriggerOperation /\ UNCHANGED <<sm_vars, audio_vars, tree_vars, nav_vars>>

InitBeat ==
    /\ SafetyInit
    /\ SMInit
    /\ AudioInit
    /\ TreeInitDefaults
    /\ NavInit
    /\ op = <<"init", "init">>
    /\ ret = NoRet

SpecBeat == InitBeat /\ [][NextBeat]_vars

(***************************************************************************)
(* Properties                                                              *)
(***************************************************************************)
\* C1: in every tick the safety gate is evaluated before any other node. A tick
\* that begins with emergency_stop set ticks the safety gate first, ticks
\* neither the patrol cycle nor return home, and issues no motion command,
\* also when the tick before it ended with the command gate or the patrol
\* cycle RUNNING.
C1_SafetyGateFirst ==
    (op = <<"tree", "tick">> /\ tick_es) =>
        /\ nodes_run[1] = "Safety Check"
        /\ \A i \in DOMAIN nodes_run :
             nodes_run[i] \notin {"Patrol Cycle", "Return to Home"}
        /\ motions = {}

Stale == HeartbeatStale(now, last_heartbeat)

\* C2: emergency_stop is one-way. A step that takes it from true to false is
\* reset_emergency_stop, whatever heartbeat, report_stall, reset_stall_counter,
\* is_safe or the watchdog thread do; and reset_emergency_stop clears the flag,
\* refreshes the heartbeat and zeroes the stall counter.
C2_StopIsOneWay ==
    [][ /\ (emergency_stop /\ ~emergency_stop')
            => op' = <<"safety", "reset_emergency_stop">>
        /\ op' = <<"safety", "reset_emergency_stop">>
            => (~emergency_stop' /\ last_heartbeat' = now' /\ stall_count' = 0)
      ]_vars

\* a latched stop that a heartbeat, sent while the stall counter is not zero,
\* has left in place
C2_Witness ==
    /\ emergency_stop
    /\ op = <<"safety", "heartbeat">>
    /\ last_heartbeat = now
    /\ stall_count > 0

\* C3: a heartbeat that has gone unrefreshed for longer than watchdog_timeout
\* latches emergency_stop, and a later heartbeat does not make the episode
\* forgotten: when a heartbeat arrives while the heartbeat is stale, with the
\* watchdog thread running and having run its checks at every instant so far,
\* emergency_stop is latched.
C3_StaleEpisodeLatched ==
    [][ (Stale /\ running /\ mon_regular /\ op' = <<"safety", "heartbeat">>)
          => emergency_stop'
      ]_vars

\* C4: is_safe() returns False exactly when emergency_stop is true or the
\* heartbeat is older than watchdog_timeout, whether or not the watchdog
\* thread has looked since the heartbeat went stale.
C4_IsSafeIffFreshAndNotStopped ==
    op = <<"safety", "is_safe">> =>
        (ret = Bool(FALSE)) = (emergency_stop \/ now - last_heartbeat > watchdog_timeout)

\* is_safe() has returned False for a stale heartbeat that no watchdog check
\* has seen: the flag is not set and the thread is not running
C4_Witness ==
    /\ op = <<"safety", "is_safe">>
    /\ ret = Bool(FALSE)
    /\ ~emergency_stop
    /\ mon_pc = "off"
    /\ now - last_heartbeat > watchdog_timeout

\* C5: report_stall adds exactly one to stall_count; the call that makes it
\* reach stall_retry_attempts latches emergency_stop and returns False; every
\* call that leaves it below returns True and leaves the flag as it was.
C5_ReportStallCounts ==
    [][ op' = <<"safety", "report_stall">> =>
          /\ stall_count' = stall_count + 1
          /\ stall_count' = stall_retry_attempts
                => (emergency_stop' /\ ret' = Bool(FALSE))
          /\ stall_count' < stall_retry_attempts
                => (ret' = Bool(TRUE) /\ emergency_stop' = emergency_stop)
      ]_vars

\* the report_stall call that reached stall_retry_attempts
C5_Witness ==
    /\ op = <<"safety", "report_stall">>
    /\ stall_count = stall_retry_attempts
    /\ ret = Bool(FALSE)
    /\ emergency_stop

\* C6: reset is accepted in each of the seven navigation states and leaves the
\* machine in idle.
C6_NavResetToIdle ==
    /\ op = <<"nav", "reset">> => (nav_state = "idle" /\ ret = Ok)
    /\ \A s \in NavStates : NavFire(s, "reset") = [state |-> "idle", err |-> FALSE]

\* reset fired in arrived
C6_Witness ==
    /\ op = <<"nav", "reset">>
    /\ sm_prev = "arrived"
    /\ nav_state = "idle"
    /\ ret = Ok

\* the table has a transition for trigger t whose source is s or the wildcard
Defined(table, s, t) ==
    \E i \in DOMAIN table :
        table[i].trigger = t /\ table[i].source \in {s, "*"}

\* the table sends trigger t from s to d
Sends(table, s, t, d) ==
    \E i \in DOMAIN table :
        table[i].trigger = t /\ table[i].source \in {s, "*"} /\ table[i].dest = d

\* C7: in both machines a trigger the table does not define for the current
\* state raises the error and leaves the state unchanged; an accepted trigger
\* moves the machine to a destination the table gives for it.
C7_InvalidTriggerRaises ==
    /\ op[1] = "nav" =>
         IF Defined(NavTransitions, sm_prev, op[2])
           THEN ret = Ok /\ Sends(NavTransitions, sm_prev, op[2], nav_state)
           ELSE ret = MachineError /\ nav_state = sm_prev
    /\ op[1] = "arm" =>
         IF Defined(ArmTransitions, sm_prev, op[2])
           THEN ret = Ok /\ Sends(ArmTransitions, sm_prev, op[2], arm_state)
           ELSE ret = MachineError /\ arm_state = sm_prev

\* start_pickup was refused while carrying
C7_Witness ==
    /\ op = <<"arm", "start_pickup">>
    /\ sm_prev = "carrying"
    /\ arm_state = "carrying"
    /\ ret = MachineError

PickupSequence ==
    <<"start_pickup", "lowered", "scooped", "lifted", "pickup_verified">>
PickupAndDumpSequence == PickupSequence \o <<"arrived_at_dump", "dumped">>

\* the arm machine has accepted exactly the first k triggers of the pickup and
\* dump sequence since it was in home
AfterPrefix(k) ==
    IF k = 0 THEN arm_state = "home"
    ELSE arm_hist = SubSeq(PickupAndDumpSequence, 1, k)

\* C8: from home, start_pickup, lowered, scooped, lifted, pickup_verified ends
\* in carrying; arrived_at_dump, dumped then returns to home; each trigger is
\* legal where it is fired.
C8_PickupSequence ==
    /\ arm_hist = PickupSequence => arm_state = "carrying"
    /\ arm_hist = PickupAndDumpSequence => arm_state = "home"
    /\ \A k \in 0..(Len(PickupAndDumpSequence) - 1) :
         AfterPrefix(k) => ~ArmFire(arm_state, PickupAndDumpSequence[k + 1]).err

\* the whole pickup and dump sequence has been accepted
C8_Witness ==
    /\ arm_hist = PickupAndDumpSequence
    /\ arm_state = "home"
    /\ op = <<"arm", "dumped">>

\* C9: abort and reset are accepted in each of the seven manipulation states
\* and leave the machine in home.
C9_AbortResetToHome ==
    /\ (op[1] = "arm" /\ op[2] \in {"abort", "reset"})
          => (arm_state = "home" /\ ret = Ok)
    /\ \A s \in ArmStates, t \in {"abort", "reset"} :
          ArmFire(s, t) = [state |-> "home", err |-> FALSE]

\* abort fired while carrying
C9_Witness ==
    /\ op = <<"arm", "abort">>
    /\ sm_prev = "carrying"
    /\ arm_state = "home"
    /\ ret = Ok

\* the strategy the escalation order gives to the i-th stall of an episode
ExpectedStrategy(i) ==
    IF i = 1 THEN BACK_UP
    ELSE IF i = 2 THEN ADJUST_ANGLE
    ELSE IF i = 3 THEN REDUCE_DEPTH
    ELSE SKIP

\* C10: from a freshly reset stall detector, consecutive handle_stall calls
\* return BackUp, AdjustAngle, ReduceDepth and then Skip.
C10_RetryOrder ==
    \A i \in DOMAIN strat_hist :
        i <= 4 => strat_hist[i] = ExpectedStrategy(i)

C12_AtMostFourSequences ==
    last_pickup.n > 0 =>
        /\ last_pickup.result \in {"true", "false"}
        /\ last_pickup.seqs <= 4

\* four attempts that all reported a stall
C12_Witness ==
    /\ last_pickup.seqs = 4
    /\ Len(last_pickup.strats) = 4
    /\ last_pickup.result = "false"

\* C13: a _pickup_with_retry call returns True exactly when one of its attempts
\* ran start_pickup, lowered, scooped, lifted with no stall reported and no
\* exception; on that attempt pickup_verified is fired, the arm machine is left
\* in carrying, and it is the last attempt of the call.
C13_SuccessIffCleanAttempt ==
    last_pickup.result # "none" =>
        /\ last_pickup.result = "true" <=> last_pickup.clean > 0
        /\ last_pickup.clean > 0 =>
              /\ last_pickup.verified
              /\ last_pickup.arm = "carrying"
              /\ last_pickup.n = last_pickup.clean

\* a stalled attempt followed by an attempt without a stall
C13_Witness ==
    /\ last_pickup.result = "true"
    /\ last_pickup.clean = 2
    /\ Len(last_pickup.strats) = 1
    /\ last_pickup.arm = "carrying"

\* C14: when a step of a pickup attempt raises an exception, the arm machine is
\* aborted to home, _pickup_with_retry returns False at once, and neither a
\* later attempt nor a retry strategy is executed after the exception.
C14_FaultAbortsPickup ==
    last_pickup.fault > 0 =>
        /\ last_pickup.result = "false"
        /\ last_pickup.arm = "home"
        /\ last_pickup.n = last_pickup.fault
        /\ Len(last_pickup.strats) = last_pickup.fault - 1

\* the second attempt reported a stall and its retry strategy raised, the arm
\* machine having gone through the four pickup triggers
C14_Witness ==
    /\ last_pickup.fault = 2
    /\ last_pickup.result = "false"
    /\ stall_detected
    /\ arm_state = "home"

\* C15: in a tick that handles a detection, _navigate_and_dump runs (the dump
\* sequence is issued) if and only if _pickup_with_retry returned True, and
\* pickup_count grows by exactly one when it returned True and is unchanged
\* when it returned False.
C15_DumpIffPickupSucceeded ==
    [][(op' = <<"tree", "tick">> /\ last_pickup'.result # "none") =>
          /\ "dump_sequence" \in motions' <=> last_pickup'.result = "true"
          /\ pickup_count' = IF last_pickup'.result = "true"
                               THEN pickup_count + 1
                               ELSE pickup_count]_vars

\* C16: after a tick that handled a detection (target_found fired, pickup
\* attempted) the navigation machine is in patrolling, whether the pickup
\* returned True or False, and the tick raised no MachineError.
C16_BackToPatrolling ==
    (op = <<"tree", "tick">> /\ last_pickup.result # "none") =>
        /\ nav_state = "patrolling"
        /\ ret # "raised"

\* C17: a tick of the patrol cycle that leaves no waypoint of the route
\* unstepped finds the coverage check true: the patrol cycle ends and
\* patrol_active is cleared, instead of the cycle staying RUNNING.
C17_PatrolCycleEnds ==
    (/\ op = <<"tree", "tick">>
     /\ \E i \in DOMAIN nodes_run : nodes_run[i] = "Patrol Cycle"
     /\ current_waypoint_idx >= Len(waypoints))
        => ~patrol_active

\* the tree wired as PooperScooperSystem.__init__ wires it
ProductionWiring == patrol_planner /\ position_tracker /\ database /\ map_manager

\* C18: end to end, with a detection at the first waypoint and a stall-free
\* pickup, the control loop of the production system stops after the patrol
\* with no emergency stop, pickup_count = 1 and exactly one logged pickup
\* attempt, whose success flag is true.
C18_EndToEnd ==
    (/\ ProductionWiring
     /\ loop_pc = "halted"
     /\ \E i \in DOMAIN nodes_run : nodes_run[i] = "Patrol Cycle")
        => /\ ~emergency_stop
           /\ pickup_count = 1
           /\ logged_attempts = <<TRUE>>

\* C19: a tick that runs return home raises no MachineError and either ends
\* with the navigation machine in idle (arrived_at_base fired) or leaves it in
\* returning_to_base with the behaviour RUNNING, so that return home is
\* continued on the next tick.
C19_ReturnHomeContinues ==
    (/\ op = <<"tree", "tick">>
     /\ \E i \in DOMAIN nodes_run : nodes_run[i] = "Return to Home")
        => /\ ret # "raised"
           /\ \/ nav_state = "idle"
              \/ nav_state = "returning_to_base" /\ ret = RUNNING

\* C20: a patrol that has started with a database has opened one session,
\* which is open while the patrol cycle has not ended and closed once the cycle
\* has ended (return home runs); at most one session is open at any moment.
C20_SessionPerPatrol ==
    /\ open_sessions <= 1
    /\ (/\ op = <<"tree", "tick">>
        /\ database
        /\ nodes_run # <<>>
        /\ nodes_run[Len(nodes_run)] = "Patrol Cycle") => open_sessions = 1
    /\ (/\ op = <<"tree", "tick">>
        /\ \E i \in DOMAIN nodes_run : nodes_run[i] = "Return to Home")
           => open_sessions = 0

\* the least n with n * c >= w
Ceil(w, c) == CHOOSE n \in 0 .. w : n * c >= w /\ (n - 1) * c < w

\* the waypoints of the route that belong to row k, when rows have n waypoints
RowOf(route, k, n) == SubSeq(route, k * n + 1, k * n + n)

\* C21: the lawnmower pattern generates exactly ceil(W/c) * ceil(H/c) waypoints,
\* row by row in increasing row order (one y per row, growing with the row),
\* the columns of row k in increasing order (x growing) when k is even and in
\* decreasing order when k is odd.
C21_LawnmowerRoute ==
    (cfg.pattern = LAWNMOWER /\ planner_waypoints # <<>>) =>
        LET n == Ceil(cfg.width, cfg.cell)
            m == Ceil(cfg.height, cfg.cell)
        IN  /\ Len(planner_waypoints) = n * m
            /\ \A k \in 0 .. m - 1 :
                 LET row == RowOf(planner_waypoints, k, n) IN
                 /\ \A i \in 1 .. n : row[i][2] = row[1][2]
                 /\ k > 0 => row[1][2] > RowOf(planner_waypoints, k - 1, n)[1][2]
                 /\ \A i \in 1 .. n - 1 :
                      IF k % 2 = 0 THEN row[i][1] < row[i + 1][1]
                                   ELSE row[i][1] > row[i + 1][1]

\* a lawnmower route of two rows of two columns over an area that is not a
\* whole number of cells wide, with overlap
C21_Witness ==
    /\ cfg.pattern = LAWNMOWER
    /\ cfg.width = 3 /\ cfg.cell = 2 /\ cfg.height = 4 /\ cfg.overlap = 50
    /\ Len(planner_waypoints) = 4

\* C22: mark_visited is idempotent: from every grid the planner can hold and
\* for every position, marking the position twice leaves the same grid and
\* the same coverage percentage as marking it once.
C22_MarkVisitedIdempotent ==
    \A p \in MarkPositions :
        LET once == MarkedGrid(coverage_grid, p)
            twice == MarkedGrid(once, p)
        IN  /\ twice = once
            /\ CoveragePercentage(twice) = CoveragePercentage(once)

\* mark_visited has just marked a cell of the grid, and a position of that
\* cell can be marked again
C22_Witness ==
    /\ op = <<"planner", "mark_visited">>
    /\ \E p \in MarkPositions :
         /\ PlannerCell(p) \in Cells
         /\ coverage_grid[PlannerCell(p)] = VISITED
         /\ CoveragePercentage(coverage_grid) > 0

\* C23: within a patrol session (a step that is not reset_patrol) no planner
\* operation lowers the coverage percentage, and the percentage is always
\* between 0 and 100 (in hundredths of a percent: 0 .. 10000).
C23_CoverageMonotone ==
    [][/\ CoveragePercentage(coverage_grid') \in 0 .. 10000
       /\ op'[2] # "reset_patrol" =>
            CoveragePercentage(coverage_grid') >= CoveragePercentage(coverage_grid)]_vars

\* the cell floor((pos - origin) / cellSize) of a position, as (row, col)
FloorCell(p) ==
    <<(p[2] - cfg.y * PosScale) \div (cfg.cell * PosScale),
      (p[1] - cfg.x * PosScale) \div (cfg.cell * PosScale)>>

\* C24 (PatrolPlanner): mark_visited of a position whose floor cell is in the
\* grid sets exactly that cell; of any other position it changes no cell.
C24_PlannerMarksFloorCell ==
    \A p \in MarkPositions :
        MarkedGrid(coverage_grid, p) =
            IF FloorCell(p) \in Cells
            THEN [coverage_grid EXCEPT ![FloorCell(p)] = VISITED]
            ELSE coverage_grid

\* C24 (MapManager): the same for MapManager.mark_visited and its grid.
C24_MapMarksFloorCell ==
    \A p \in MarkPositions :
        MapMarkedGrid(occupancy_grid, p) =
            IF FloorCell(p) \in Cells
            THEN [occupancy_grid EXCEPT ![FloorCell(p)] = 1]
            ELSE occupancy_grid

\* C24: mark_visited maps a position to the cell floor((pos - origin) /
\* cellSize); for every position outside the grid, positions less than one
\* cell left of or below the origin included, it changes no cell, in the
\* planner's grid and in the map manager's.
C24_MarkVisitedFloorCell == C24_PlannerMarksFloorCell /\ C24_MapMarksFloorCell

\* C24, inside the grid only: both mark_visited set the floor cell of every
\* position whose floor cell is in the grid.
C24_InsideMarksFloorCell ==
    \A p \in MarkPositions :
        FloorCell(p) \in Cells =>
            /\ MarkedGrid(coverage_grid, p) = [coverage_grid EXCEPT ![FloorCell(p)] = VISITED]
            /\ MapMarkedGrid(occupancy_grid, p) = [occupancy_grid EXCEPT ![FloorCell(p)] = 1]

\* two cells that share a side
Adjacent4(a, b) == Abs(a[1] - b[1]) + Abs(a[2] - b[2]) = 1

\* C25: on the obstacle-free grid, for every start and goal inside the grid,
\* the A* path begins at the start, ends at the goal, moves between
\* 4-adjacent cells of the grid and has exactly Manhattan distance + 1 cells.
C25_AstarShortestPath ==
    (op = <<"path_planner", "_astar">> /\ plan_goal \in Cells) =>
        /\ Len(path) = Abs(plan_start[1] - plan_goal[1])
                       + Abs(plan_start[2] - plan_goal[2]) + 1
        /\ path[1] = plan_start
        /\ path[Len(path)] = plan_goal
        /\ \A k \in 1 .. Len(path) : path[k] \in Cells
        /\ \A k \in 1 .. Len(path) - 1 : Adjacent4(path[k], path[k + 1])

\* the search from (0, 0) to (4, 4) of a 5 x 5 grid has returned 9 cells
C25_Witness ==
    /\ op = <<"path_planner", "_astar">>
    /\ grid_rows = 5 /\ grid_cols = 5
    /\ plan_start = <<0, 0>> /\ plan_goal = <<4, 4>>
    /\ Len(path) = 9

\* C26: when the goal lies outside the grid, the path planner returns an
\* empty path, for a goal cell passed to _astar and for a goal position
\* passed to plan_path.
C26_OutsideGoalEmptyPath ==
    (op[1] = "path_planner" /\ plan_goal \notin Cells) => path = <<>>

\* C26 (_astar only): a goal cell outside the grid gives an empty path.
C26_AstarOutsideGoalEmpty ==
    (op = <<"path_planner", "_astar">> /\ plan_goal \notin Cells) => path = <<>>

\* C27: the values get_next_waypoint has returned since the route was
\* generated or reset are the generated waypoints in order, one per position
\* of the list, followed by None only; the cursor counts the waypoints
\* returned; has_more_waypoints answers true exactly while a waypoint is
\* still unreturned, and changes neither the cursor nor what was returned.
C27_WaypointsInOrderThenNone ==
    [][/\ \A i \in 1 .. Len(returned') :
            returned'[i] = IF i <= Len(planner_waypoints')
                           THEN planner_waypoints'[i] ELSE NoWaypoint
       /\ current_waypoint_index' = Min(Len(returned'), Len(planner_waypoints'))
       /\ op' = <<"planner", "has_more_waypoints">> =>
            /\ ret' = Bool(Len(returned) < Len(planner_waypoints))
            /\ current_waypoint_index' = current_waypoint_index
            /\ returned' = returned]_vars

\* a route of at least four waypoints was returned in full, None was
\* returned twice after it, and has_more_waypoints has answered false
C27_Witness ==
    /\ Len(planner_waypoints) >= 4
    /\ Len(returned) = Len(planner_waypoints) + 2
    /\ op = <<"planner", "has_more_waypoints">>
    /\ ret = Bool(FALSE)

\* C28: reset_patrol sets every cell of the grid to Unvisited and the
\* waypoint cursor to 0, and leaves the waypoint list unchanged.
C28_ResetPatrol ==
    [][op' = <<"planner", "reset_patrol">> =>
         /\ DOMAIN coverage_grid' = Cells
         /\ \A cell \in Cells : coverage_grid'[cell] = UNVISITED
         /\ current_waypoint_index' = 0
         /\ planner_waypoints' = planner_waypoints]_vars

\* reset_patrol has run on a planner that holds a generated route over a
\* grid of four cells
C28_Witness ==
    /\ op = <<"planner", "reset_patrol">>
    /\ Len(planner_waypoints) = 4
    /\ current_waypoint_index = 0
    /\ CoveragePercentage(coverage_grid) = 0

\* the command gate was evaluated in the tick that produced these nodes
GateRan(nodes) == \E i \in DOMAIN nodes : nodes[i] = "Wait for Patrol Command"

\* C29: a tick that evaluates the command gate while patrol_active is false
\* returns Running (never Failure) with the gate as the last node run: no
\* waypoints are generated, no session is opened, the navigation state is
\* unchanged and no motion command is issued. A tick that evaluates the gate
\* once patrol_active is set passes it: the patrol cycle is the next node run.
C29_CommandGate ==
    [][(op' = <<"tree", "tick">> /\ GateRan(nodes_run')) =>
         IF ~patrol_active
         THEN /\ ret' = RUNNING
              /\ nodes_run'[Len(nodes_run')] = "Wait for Patrol Command"
              /\ motions' = {}
              /\ nav_state' = nav_state
              /\ waypoints' = waypoints
              /\ initialized' = initialized
              /\ open_sessions' = open_sessions
              /\ current_child' = 2
         ELSE \E i \in 1 .. Len(nodes_run') - 1 :
                /\ nodes_run'[i] = "Wait for Patrol Command"
                /\ nodes_run'[i + 1] = "Patrol Cycle"]_vars

\* a tick resumed at the gate it had left Running, found patrol_active set
\* by the web command and went on to the patrol cycle
C29_Witness ==
    /\ op = <<"tree", "tick">>
    /\ patrol_active
    /\ Len(nodes_run) >= 2
    /\ nodes_run[1] = "Wait for Patrol Command"
    /\ nodes_run[2] = "Patrol Cycle"

\* a tick evaluated the gate while no patrol was commanded and stopped there
C29_Waiting ==
    /\ op = <<"tree", "tick">>
    /\ ~patrol_active
    /\ nodes_run = <<"Safety Check", "Wait for Patrol Command">>
    /\ ret = RUNNING

C30_Arrived ==
    /\ op = <<"tree", "tick">>
    /\ last_pickup.passes = 2
    /\ last_pickup.arrived
    /\ last_pickup.dumps = 1

\* C31: a calibrate_motor call that captured fewer than half of the N
\* samples it attempted returns False and leaves the stored baselines
\* unchanged, for every N, odd N and N = 0 included.
C31_FewerThanHalfRejected ==
    [][(op' = <<"audio", "calibrate_motor">>
        /\ 2 * calibration'[2] < calibration'[1]) =>
           /\ ret' = Bool(FALSE)
           /\ baseline_frequencies' = baseline_frequencies]_vars

\* C31 for even N only: fewer than half of the samples is a rejection
C31_EvenRejected ==
    [][(op' = <<"audio", "calibrate_motor">>
        /\ calibration'[1] % 2 = 0
        /\ 2 * calibration'[2] < calibration'[1]) =>
           /\ ret' = Bool(FALSE)
           /\ baseline_frequencies' = baseline_frequencies]_vars

\* a calibration that attempted one sample and captured none was accepted
\* and stored the median of nothing as the baseline of a motor
C31_NaNBaselineStored ==
    /\ op = <<"audio", "calibrate_motor">>
    /\ calibration = <<1, 0>>
    /\ ret = Bool(TRUE)
    /\ \E m \in Motors : baseline_frequencies[m] = NaN

\* C32: while the body of a tick executes without a fault, the last heartbeat
\* is no older than watchdog_timeout, so the watchdog thread does not latch
\* emergency_stop for heartbeat staleness: the command-gate sleep, a pickup
\* with retries and the disposal navigation included.
C32_HeartbeatWithinTimeout ==
    InTick =>
        /\ ~HeartbeatStale(now, last_heartbeat)
        /\ mon_pc # "trig_hb"
        /\ stop_reason # "Watchdog timeout"

\* the sleep of the command gate alone stays within watchdog_timeout
C32_GateSleepWithinTimeout ==
    (InTick /\ tick_end - last_heartbeat <= 1) =>
        /\ ~HeartbeatStale(now, last_heartbeat)
        /\ mon_pc # "trig_hb"
        /\ stop_reason # "Watchdog timeout"

\* the watchdog thread latched the stop while the flag search of a tick that
\* had met no fault was still turning
C32_LatchedInTick ==
    /\ InTick
    /\ op = <<"monitor", "monitor_trigger_hb">>
    /\ emergency_stop
    /\ stop_reason = "Watchdog timeout"
    /\ ~tick_es

\* a step of the grid that keeps its cells and changes a cell only from
\* Unvisited to Visited
GridOnlyGains(old, new) ==
    /\ DOMAIN new = DOMAIN old
    /\ \A cell \in DOMAIN old :
          new[cell] # old[cell] => old[cell] = UNVISITED /\ new[cell] = VISITED

\* C33: within a patrol session (a step that is not reset_patrol) the
\* coverage grid keeps the dimensions it was built with, and the only change
\* of a cell is Unvisited -> Visited: a Visited cell never becomes Unvisited
\* and an Obstacle cell never changes.
C33_GridOnlyGainsInSession ==
    [][op'[2] # "reset_patrol" =>
          /\ DOMAIN coverage_grid' = Cells
          /\ GridOnlyGains(coverage_grid, coverage_grid')]_vars

\* mark_visited and save_coverage_map keep the grid's cells and only turn
\* Unvisited cells Visited
C33_MarkOnlyGains ==
    [][op'[2] \in {"mark_visited", "save_coverage_map"} =>
          /\ DOMAIN coverage_grid' = Cells
          /\ GridOnlyGains(coverage_grid, coverage_grid')]_vars

\* the node run after the patrol cycle in the tick that produced nodes
\* (none: the patrol cycle was not run or was the last node)
AfterPatrolCycle(nodes) ==
    {nodes[i + 1] : i \in {j \in DOMAIN nodes :
                             nodes[j] = "Patrol Cycle" /\ j < Len(nodes)}}

\* C34: a tick that evaluates the patrol cycle after patrol_active was
\* cleared has the patrol cycle return Success at once, with no forward
\* motion, no pickup attempt and no dump, and runs return home in the same
\* tick.
C34_StopEndsPatrolCycle ==
    [][(/\ op' = <<"tree", "tick">>
        /\ ~patrol_active
        /\ \E i \in DOMAIN nodes_run' : nodes_run'[i] = "Patrol Cycle") =>
          /\ AfterPatrolCycle(nodes_run') = {"Return to Home"}
          /\ "move_forward" \notin motions'
          /\ last_pickup' = NoPickup
          /\ pickup_count' = pickup_count
          /\ ~patrol_active']_vars

\* a patrol stopped by the operator: the tick resumed at the patrol cycle,
\* which ended, and return home backed up once
C34_Witness ==
    /\ op = <<"tree", "tick">>
    /\ ~patrol_active
    /\ nodes_run = <<"Patrol Cycle", "Return to Home">>
    /\ ret = SUCCESS
    /\ motions = {"move_backward"}
    /\ nav_state = "returning_to_base"

\* the cells of the coverage map that are not obstacles
FreeCells == {cell \in Cells : coverage_grid[cell] # OBSTACLE}

\* the free cells within n steps between 4-adjacent free cells of the cells S
RECURSIVE FreeReach(_, _)
FreeReach(S, n) ==
    IF n = 0 THEN S
    ELSE FreeReach(S \cup {c \in FreeCells : \E d \in S : Adjacent4(c, d)}, n - 1)

\* a route over free cells leads from the start to the goal
RouteExists ==
    /\ plan_start \in FreeCells
    /\ plan_goal \in FreeReach({plan_start}, Cardinality(Cells))

\* C35: a path returned by _astar contains no Obstacle cell, and it is empty
\* when no route over free cells leads from the start to the goal.
C35_PathAvoidsObstacles ==
    op = <<"path_planner", "_astar">> =>
        /\ \A k \in 1 .. Len(path) : path[k] \in FreeCells
        /\ ~RouteExists => path = <<>>

\* on a map without obstacles the path stays on free cells
C35_FreeMapPathFree ==
    (op = <<"path_planner", "_astar">> /\ FreeCells = Cells) =>
        /\ path # <<>>
        /\ \A k \in 1 .. Len(path) : path[k] \in FreeCells

\* a path across the diagonal of a 2 x 2 map whose other two cells are
\* obstacles
C35_ThroughObstacle ==
    /\ op = <<"path_planner", "_astar">>
    /\ grid_rows = 2 /\ grid_cols = 2
    /\ plan_start = <<0, 0>> /\ plan_goal = <<1, 1>>
    /\ coverage_grid[<<0, 1>>] = OBSTACLE
    /\ coverage_grid[<<1, 0>>] = OBSTACLE
    /\ Len(path) = 3

\* the tick that produced nodes passed the command gate and entered the
\* patrol cycle
PatrolEntered(nodes) ==
    \E i \in DOMAIN nodes :
        /\ nodes[i] = "Wait for Patrol Command"
        /\ i < Len(nodes)
        /\ nodes[i + 1] = "Patrol Cycle"

\* C36: a tick that enters the patrol cycle after a start command raises no
\* exception; it has generated the route with the cursor on its first
\* waypoint, opened a session when there is a database and, when it saw no
\* target, left the navigation machine in patrolling.
C36_PatrolEntryInitialises ==
    [][(op' = <<"tree", "tick">> /\ PatrolEntered(nodes_run')) =>
          /\ ret' # "raised"
          /\ initialized'
          /\ database => open_sessions' = open_sessions + 1
          /\ last_pickup' = NoPickup =>
                /\ nav_state' = "patrolling"
                /\ current_waypoint_idx' <= 1]_vars

\* a patrol entered without a planner: nothing was initialised, and the
\* navigation machine is still idle
C36_EnteredUninitialised ==
    /\ op = <<"tree", "tick">>
    /\ PatrolEntered(nodes_run)
    /\ ret = RUNNING
    /\ ~initialized
    /\ nav_state = "idle"
    /\ open_sessions = 0

C38_RouteCoversGrid ==
    op = <<"planner", "mark_waypoints">> =>
        /\ \A cell \in Cells : coverage_grid[cell] = VISITED
        /\ CoveragePercentage(coverage_grid) = 10000
        /\ IsPatrolComplete(coverage_grid)

\* the spiral and grid routes, and the lawnmower route without overlap,
\* cover the grid
C38_NoOverlapCoversGrid ==
    (/\ op = <<"planner", "mark_waypoints">>
     /\ cfg.pattern = LAWNMOWER => cfg.overlap = 0) =>
        /\ \A cell \in Cells : coverage_grid[cell] = VISITED
        /\ CoveragePercentage(coverage_grid) = 10000
        /\ IsPatrolComplete(coverage_grid)

\* a lawnmower route with 50 percent overlap driven over a 2 x 2 grid: one
\* cell of four is Visited and the patrol is not complete
C38_OverlapLeavesCells ==
    /\ op = <<"planner", "mark_waypoints">>
    /\ cfg.pattern = LAWNMOWER /\ cfg.overlap = 50
    /\ grid_rows = 2 /\ grid_cols = 2
    /\ CoveragePercentage(coverage_grid) = 2500
    /\ ~IsPatrolComplete(coverage_grid)

\* C39: once a stop that the watchdog latched for max_operation_time has been
\* reset, emergency_stop is set again, while the heartbeat is fresh and the
\* stall count is below its limit, only by a call of trigger_emergency_stop
\* or report_stall or by the watchdog's heartbeat check: not by the
\* operation-time check.
C39_ResetStopStaysReset ==
    [][(/\ ~emergency_stop
        /\ stop_reason = "Operation timeout"
        /\ ~HeartbeatStale(now, last_heartbeat)
        /\ stall_count < stall_retry_attempts
        /\ emergency_stop') =>
          op' \in {<<"safety", "trigger_emergency_stop">>,
                   <<"safety", "report_stall">>,
                   <<"monitor", "monitor_trigger_hb">>}]_vars

\* C39 (other stops): a stop latched for a stale heartbeat and then reset is
\* not latched again by the heartbeat check while the heartbeat the watchdog
\* read is fresh.
C39_HeartbeatStopStaysReset ==
    [][(/\ ~emergency_stop
        /\ stop_reason = "Watchdog timeout"
        /\ mon_pc = "loop"
        /\ op' = <<"monitor", "monitor_check">>
        /\ ~HeartbeatStale(now, last_heartbeat)) =>
          mon_pc' # "trig_hb"]_vars

\* C40: when the watchdog thread sets emergency_stop for a stale heartbeat,
\* the heartbeat is stale at the moment of the write: a reset_emergency_stop
\* or heartbeat that ran between the thread's check and its write is not
\* overridden.
C40_LatchOnlyWhileStale ==
    [][(op' = <<"monitor", "monitor_trigger_hb">> /\ ~emergency_stop) =>
          HeartbeatStale(now, last_heartbeat)]_vars

\* C40 (check): the watchdog thread decides to latch only on a heartbeat
\* that is stale when it reads it.
C40_DecidesOnlyWhileStale ==
    [][(op' = <<"monitor", "monitor_check">> /\ mon_pc' = "trig_hb") =>
          HeartbeatStale(now, last_heartbeat)]_vars

\* C40 (reset): a watchdog write that follows a reset_emergency_stop
\* directly does not set emergency_stop.
C40_ResetNotOverridden ==
    [][(/\ op = <<"safety", "reset_emergency_stop">>
        /\ op' = <<"monitor", "monitor_trigger_hb">>) =>
          ~emergency_stop']_vars

====
